---- MODULE Spec2Model ----
(***************************************************************************)
(* User profile editor: the HTTP interceptor, the rxjs operators of the    *)
(* request pipeline (tapResponseData, tapValidationErrors,                 *)
(* tapUploadProgress, tapError) and the UserProfileComponent that runs a   *)
(* load (GET) and saves (PUT) through them.                                *)
(*                                                                         *)
(* JavaScript is single threaded: one transport notification (a value      *)
(* event, or the terminal response/error) is handled to the end by the     *)
(* whole operator chain before the next one is delivered.  One action of   *)
(* the model is one such delivery; the order of the callbacks inside one   *)
(* delivery is kept in the request's log.                                  *)
(***************************************************************************)
EXTENDS Integers, Sequences, FiniteSets, TLC

(***************************************************************************)
(* Bounds of the model.                                                    *)
(***************************************************************************)
\* request slots that can be in flight at the same time
MaxSlots == 2
\* non-terminal transport events (sent, progress, header) of one request
MaxEvents == 2
\* largest byte counter of a progress event
MaxLoaded == 2

(***************************************************************************)
(* Values.                                                                 *)
(***************************************************************************)
Fields == {"name", "email", "address", "avatar"}

\* a control value: a string, null (after reset with a missing key) or a Blob
NullValue == "<null>"
BlobValue == "<blob>"

\* the data field of a success envelope: a user record, or JSON null
NullData == [isNull |-> TRUE, id |-> 0, name |-> "", email |-> "",
             address |-> "", avatar |-> ""]

UserAnn == [isNull |-> FALSE, id |-> 1, name |-> "ann", email |-> "a@b.c",
            address |-> "street", avatar |-> "ann.png"]

UserBob == [isNull |-> FALSE, id |-> 1, name |-> "bob", email |-> "a@b.c",
            address |-> "street", avatar |-> "bob.png"]

DataValues == {UserAnn, UserBob, NullData}

\* entries of a validation envelope's errors array
ErrDupName == [field |-> "name", code |-> "duplicate_name",
               message |-> "There is already a user with this name."]

ErrEmail == [field |-> "email", code |-> "taken", message |-> "Email in use"]

(***************************************************************************)
(* Response bodies, by the features the code inspects.                     *)
(***************************************************************************)
Body(isNull, plain, status, hasData, data) ==
    [isNull |-> isNull, isPlain |-> plain, status |-> status,
     hasData |-> hasData, data |-> data]

\* {status: "ok", data: d}
OkBody(d) == Body(FALSE, TRUE, "ok", TRUE, d)
\* {foo: "bar"}
FooBody == Body(FALSE, TRUE, "none", FALSE, NullData)
\* {status: "ok"}
NoDataBody == Body(FALSE, TRUE, "ok", FALSE, NullData)
\* {status: "error", data: ...}
ErrStatusBody == Body(FALSE, TRUE, "error", TRUE, UserAnn)
\* null (an empty response)
NullBody == Body(TRUE, FALSE, "none", FALSE, NullData)
\* a string or an array
NonObjectBody == Body(FALSE, FALSE, "none", FALSE, NullData)

ResponseBodies == {OkBody(d) : d \in DataValues}
                    \cup {FooBody, NoDataBody, ErrStatusBody, NullBody, NonObjectBody}

\* HttpStatusCode.Ok and HttpStatusCode.BadRequest
StatusOk == 200
StatusBadRequest == 400

\* the 2xx statuses with which the transport reports a response
SuccessStatuses == {StatusOk, 201}

(***************************************************************************)
(* Error bodies (HttpErrorResponse.error), by the features the code        *)
(* inspects: null, or an object with optional loaded/total counters and    *)
(* an optional errors array.                                               *)
(***************************************************************************)
ErrorBody(isNull, loaded, total, hasErrors, errors) ==
    [isNull |-> isNull, loaded |-> loaded, total |-> total,
     hasErrors |-> hasErrors, errors |-> errors]

NullErrorBody == ErrorBody(TRUE, 0, 0, FALSE, <<>>)
CountersBody(l, t) == ErrorBody(FALSE, l, t, FALSE, <<>>)
ValidationBody(errs) == ErrorBody(FALSE, 0, 0, TRUE, errs)

ErrorLists == {<<ErrDupName>>, <<ErrDupName, ErrEmail>>, <<ErrEmail, ErrDupName>>}

(***************************************************************************)
(* Transport events.  One record shape for every event.                    *)
(*   type   Sent | UploadProgress | DownloadProgress | ResponseHeader      *)
(*          | Response (HttpResponse) | Body (the body alone, observe:     *)
(*          'body') | Error                                                *)
(*   class  for an Error, the class of the error object                    *)
(***************************************************************************)
Event(type, status, body, loaded, total, class, hasHeaders, ebody, wasCaught) ==
    [type |-> type, status |-> status, body |-> body, loaded |-> loaded,
     total |-> total, class |-> class, hasHeaders |-> hasHeaders,
     ebody |-> ebody, wasCaught |-> wasCaught]

SentEvent == Event("Sent", 0, NullBody, 0, 0, "none", FALSE, NullErrorBody, FALSE)
HeaderEvent == Event("ResponseHeader", 200, NullBody, 0, 0, "none", TRUE, NullErrorBody, FALSE)
\* total = 0 stands for an absent total as well: the code tests its truthiness
UploadEvent(l, t) == Event("UploadProgress", 0, NullBody, l, t, "none", FALSE, NullErrorBody, FALSE)
DownloadEvent(l, t) == Event("DownloadProgress", 0, NullBody, l, t, "none", FALSE, NullErrorBody, FALSE)
ResponseEvent(st, b) == Event("Response", st, b, 0, 0, "none", TRUE, NullErrorBody, FALSE)
BodyEvent(b) == Event("Body", 0, b, 0, 0, "none", FALSE, NullErrorBody, FALSE)
\* an HttpErrorResponse; its ok field is false by construction
HttpError(st, hdr, eb) == Event("Error", st, NullBody, 0, 0, "HttpErrorResponse", hdr, eb, FALSE)
\* errors created by the code itself
BodyFormatError == Event("Error", 0, NullBody, 0, 0, "HttpResponseBodyFormatError", FALSE, NullErrorBody, FALSE)
NoNetworkError(caught) == Event("Error", 0, NullBody, 0, 0, "HttpNoNetworkConnectionError", FALSE, NullErrorBody, caught)
\* the TypeError of a property read on null or undefined
TypeErrorEvent == Event("Error", 0, NullBody, 0, 0, "TypeError", FALSE, NullErrorBody, FALSE)

\* the total of an upload progress event: absent (0), or the size of the
\* request body, which loaded never exceeds
UploadTotals == {0, MaxLoaded, MaxLoaded + 1}

\* the body of a request has one size: the totals an event can report once
\* the totals in seen were reported
TotalsAfter(seen) == {0} \cup (IF seen = {} THEN UploadTotals ELSE seen)

\* the events a request can report before its terminal event.  A PUT with
\* reportProgress reports the sent event first, then upload progress with
\* a growing byte count (from is the least count not yet passed), then the
\* response header and download progress; a GET reports the sent event.
ValueEvents(kind, first, from, seen) ==
    (IF first THEN {SentEvent} ELSE {})
    \cup (IF kind = "save"
            THEN {UploadEvent(l, t) : l \in from..MaxLoaded, t \in TotalsAfter(seen)}
                   \cup {HeaderEvent, DownloadEvent(MaxLoaded, MaxLoaded)}
            ELSE {})

\* the least byte count a later upload progress event can report
NextLoaded(ev, from) ==
    CASE ev.type = "UploadProgress" -> ev.loaded + 1
      [] ev.type \in {"ResponseHeader", "DownloadProgress"} -> MaxLoaded + 1
      [] OTHER -> from

RawResponses ==
    {ResponseEvent(StatusOk, b) : b \in ResponseBodies}
    \cup {ResponseEvent(st, b) : st \in SuccessStatuses, b \in {OkBody(UserAnn), NoDataBody, NullBody}}

RawErrors ==
    \* no status: the family the network check is about
    {HttpError(0, h, eb) : h \in BOOLEAN,
        eb \in {NullErrorBody, CountersBody(0, 0), CountersBody(1, 0), CountersBody(0, 1)}}
    \* bad request, with and without the validation envelope
    \cup {HttpError(StatusBadRequest, TRUE, ValidationBody(errs)) : errs \in ErrorLists}
    \cup {HttpError(StatusBadRequest, TRUE, eb) : eb \in {NullErrorBody, CountersBody(0, 0)}}
    \* everything else
    \cup {HttpError(404, TRUE, CountersBody(0, 0)), HttpError(500, TRUE, NullErrorBody)}

TerminalEvents == RawResponses \cup RawErrors

(***************************************************************************)
(* The server error interceptor.                                           *)
(***************************************************************************)
MsgInternalError == "An internal error has occurred. Please try again later."
MsgNoConnection == "No network connection. Please try again later."
MsgUnexpected == "An unexpected error has occurred. Please try again later."
MsgSaved == "The profile was successfully saved"

\* the format check without the test of the data property
check200ResponseBodyFormat_NoData(body) ==
    body.isPlain /\ body.status = "ok"

check200ResponseBodyFormat(body) ==
    body.isPlain /\ body.status = "ok" /\ body.hasData

\* the check looking at nothing but isPlainObject(body)
checkInvalid200Response_PlainOnly(ev) ==
    /\ ev.type = "Response"
    /\ ev.status = StatusOk
    /\ ~ev.body.isPlain

checkInvalid200Response(ev) ==
    /\ ev.type = "Response"
    /\ ev.status = StatusOk
    /\ ~check200ResponseBodyFormat(ev.body)

\* "true", "false", or "throws" when error.error is null and the conjunction
\* gets as far as reading error.error.loaded
checkNoNetworkConnection(err) ==
    IF ~(err.class = "HttpErrorResponse") THEN "false"
    ELSE IF err.hasHeaders THEN "false"
    ELSE IF err.status # 0 THEN "false"
    ELSE IF err.ebody.isNull THEN "throws"
    ELSE IF err.ebody.loaded # 0 THEN "false"
    ELSE IF err.ebody.total # 0 THEN "false"
    ELSE "true"

\* the check comparing with HttpStatusCode.NotFound
is400ResponseError_NotFound(err) ==
    err.class = "HttpErrorResponse" /\ err.status = 404

is400ResponseError(err) ==
    err.class = "HttpErrorResponse" /\ err.status = StatusBadRequest

\* catchError of the interceptor at lines 77-109: what is thrown on, and the
\* messages opened in the snackbar
catchError1(err) ==
    LET net == checkNoNetworkConnection(err) IN
    IF net = "throws" THEN [ev |-> TypeErrorEvent, notes |-> <<>>]
    ELSE IF net = "true" THEN [ev |-> NoNetworkError(TRUE), notes |-> <<MsgNoConnection>>]
    ELSE IF is400ResponseError(err) THEN [ev |-> err, notes |-> <<>>]
    ELSE [ev |-> err, notes |-> <<MsgInternalError>>]

\* the catchError that notifies for every error it passes on
catchError2_NotifyOthers(err) ==
    LET net == checkNoNetworkConnection(err) IN
    IF net = "throws" THEN [ev |-> TypeErrorEvent, notes |-> <<>>]
    ELSE IF net = "true" THEN [ev |-> NoNetworkError(TRUE), notes |-> <<MsgNoConnection>>]
    ELSE [ev |-> err, notes |-> <<MsgInternalError>>]

\* catchError of the interceptor at lines 236-260
catchError2(err) ==
    LET net == checkNoNetworkConnection(err) IN
    IF net = "throws" THEN [ev |-> TypeErrorEvent, notes |-> <<>>]
    ELSE IF net = "true" THEN [ev |-> NoNetworkError(TRUE), notes |-> <<MsgNoConnection>>]
    ELSE [ev |-> err, notes |-> <<>>]

\* the interceptor of lines 61-111: the tap throws, catchError notifies
serverErrorInterceptor1(ev) ==
    IF ev.type = "Error" THEN catchError1(ev)
    ELSE IF checkInvalid200Response(ev) THEN catchError1(BodyFormatError)
    ELSE [ev |-> ev, notes |-> <<>>]

\* the interceptor of lines 211-262: the tap notifies and throws
serverErrorInterceptor2(ev) ==
    IF ev.type = "Error" THEN catchError2(ev)
    ELSE IF checkInvalid200Response(ev)
         THEN LET c == catchError2(BodyFormatError) IN
              [ev |-> c.ev, notes |-> <<MsgInternalError>> \o c.notes]
    ELSE [ev |-> ev, notes |-> <<>>]

serverErrorInterceptor(version, ev) ==
    IF version = 1 THEN serverErrorInterceptor1(ev) ELSE serverErrorInterceptor2(ev)

\* the failure kind of the taxonomy an error object stands for
FailureKind(err) ==
    CASE err.class = "HttpNoNetworkConnectionError" -> "network-unreachable"
      [] err.class = "HttpResponseBodyFormatError" -> "malformed-response"
      [] OTHER -> "other"

(***************************************************************************)
(* The operators of the pipeline.                                          *)
(***************************************************************************)
\* the shape check without the test for the data property
isPlainResponse_NoData(body) ==
    /\ ~body.isNull
    /\ body.isPlain
    /\ body.status = "ok"

\* a value as the operators see it: an HttpResponse instance, a bare body
\* or another event object
isPlainResponse(body) ==
    /\ ~body.isNull
    /\ body.isPlain
    /\ body.hasData
    /\ body.status = "ok"

isResponseInstance(v) ==
    v.type = "Response" /\ isPlainResponse(v.body)

\* the shape check taking every plain object for the envelope
tapResponseDataFires_AnyPlain(v) ==
    \/ isResponseInstance(v)
    \/ v.type = "Body" /\ isPlainResponse(v.body)
    \/ v.type = "UploadProgress"

\* tapResponseData: does the callback run for this value
tapResponseDataFires(v) ==
    \/ isResponseInstance(v)
    \/ v.type = "Body" /\ isPlainResponse(v.body)

\* the stage catching a 400 only when its body holds an errors array
tapValidationErrorsCatches_EnvelopeOnly(err) ==
    /\ err.class = "HttpErrorResponse" /\ err.status = StatusBadRequest
    /\ ~err.ebody.isNull /\ err.ebody.hasErrors

\* tapValidationErrors: is the error caught and handed to the callback
tapValidationErrorsCatches(err) ==
    err.class = "HttpErrorResponse" /\ err.status = StatusBadRequest

\* the operator reporting the download progress as well
tapUploadProgressFires_AnyProgress(v) ==
    /\ v.type \in {"UploadProgress", "DownloadProgress"}
    /\ v.total # 0

\* tapUploadProgress: does the callback run for this value
tapUploadProgressFires(v) ==
    /\ v.type \in {"Sent", "UploadProgress", "DownloadProgress"}
    /\ v.type = "UploadProgress"
    /\ v.total # 0

\* Math.round((100 * loaded) / total), total > 0
ProgressPercent(loaded, total) == (200 * loaded + total) \div (2 * total)

\* tapError: Reflect.get(error, 'wasCaught') || false
tapErrorWasCaught(err) == err.wasCaught

(***************************************************************************)
(* The form: control values and control errors.  The group itself never    *)
(* gets an error of its own (the only call on it is setErrors(null)).      *)
(***************************************************************************)
ValidEmails == {"a@b.c"}

\* Validators.required and Validators.email, as composed per control
ValidatorErrors(f, v) ==
    (IF f \in {"name", "email", "address"} /\ v \in {"", NullValue}
        THEN {[code |-> "required", message |-> "true"]} ELSE {})
    \cup
    (IF f = "email" /\ ~(v \in {"", NullValue}) /\ ~(v \in ValidEmails)
        THEN {[code |-> "email", message |-> "true"]} ELSE {})

\* the control values and errors of the form as constructed
InitialValue == [f \in Fields |-> ""]
InitialErrors == [f \in Fields |-> ValidatorErrors(f, "")]

\* pick(data, Object.keys(form.value)), then what form.reset makes of it:
\* a key the picked object lacks resets its control to null
PickField(data, f) ==
    IF data.isNull THEN NullValue
    ELSE CASE f = "name" -> data.name
           [] f = "email" -> data.email
           [] f = "address" -> data.address
           [] f = "avatar" -> data.avatar

\* the component state the callbacks read and write, as one record
\* an update that leaves the avatar control with what it holds
updateForm_KeepAvatar(st, data) ==
    LET nv == [f \in Fields |-> IF f = "avatar" THEN st.formValue[f] ELSE PickField(data, f)] IN
    [st EXCEPT !.formValue = nv,
               !.controlErrors = [f \in Fields |-> ValidatorErrors(f, nv[f])]]

updateForm(st, data) ==
    LET nv == [f \in Fields |-> PickField(data, f)] IN
    [st EXCEPT !.formValue = nv,
               !.controlErrors = [f \in Fields |-> ValidatorErrors(f, nv[f])]]

restoreForm(st) ==
    IF st.userData.isNull THEN st ELSE updateForm(st, st.userData)

\* a control whose errors are merged with the new entry, key by key
controlSetErrors_Merge(errors, e) ==
    {x \in errors : x.code # e.code} \cup {[code |-> e.code, message |-> e.message]}

\* control.setErrors({[error.code]: error.message}): the object handed over
\* becomes the error map of the control
controlSetErrors(errors, e) ==
    {[code |-> e.code, message |-> e.message]}

\* form.get(field).setErrors(...) without the optional chaining: a name the
\* form does not have gives null, and the call on null raises
entryOutcome_NoOptionalChaining(ce, e) ==
    IF e.field \in DOMAIN ce THEN "set" ELSE "raise"

\* form.get(error.field)?.setErrors(...): the call is skipped for a name the
\* form does not have
entryOutcome(ce, e) ==
    IF e.field \in DOMAIN ce THEN "set" ELSE "skip"

\* forEach over the errors array, entry by entry in the order of the array;
\* an entry that raises ends the loop
RECURSIVE ApplyErrors(_, _)
ApplyErrors(errs, ce) ==
    IF errs = <<>> THEN ce
    ELSE LET e == Head(errs)
             o == entryOutcome(ce, e)
         IN IF o = "raise" THEN ce
            ELSE ApplyErrors(Tail(errs),
                    IF o = "set"
                       THEN [ce EXCEPT ![e.field] = controlSetErrors(ce[e.field], e)]
                       ELSE ce)

\* whether the loop over the errors array raises
ApplyErrorsRaises(errs, ce) ==
    \E i \in 1..Len(errs) : entryOutcome(ce, errs[i]) = "raise"

setFormErrors(st, ebody) ==
    IF ebody.isNull \/ ~ebody.hasErrors THEN st
    ELSE [st EXCEPT !.controlErrors = ApplyErrors(ebody.errors, st.controlErrors)]

FormValid(ce) == \A f \in Fields : ce[f] = {}

isFormPristine(fv, ud) ==
    /\ ~ud.isNull
    /\ fv = [f \in Fields |-> PickField(ud, f)]

\* a Save button that does not look at the save in progress
isSaveDisabled_IgnoreProgress(fv, ce, ud, inProgress) ==
    ~FormValid(ce) \/ isFormPristine(fv, ud)

isSaveDisabled(fv, ce, ud, inProgress) ==
    ~FormValid(ce) \/ isFormPristine(fv, ud) \/ inProgress

\* a Reset button that looks at the form only
isResetDisabled_PristineOnly(fv, ud, inProgress) ==
    isFormPristine(fv, ud)

isResetDisabled(fv, ud, inProgress) ==
    isFormPristine(fv, ud) \/ inProgress

(***************************************************************************)
(* ValidationErrorDirective: the text shown under a control.  A validator  *)
(* stores true under its key, the server's entries store their message.    *)
(***************************************************************************)
DefaultErrorMessages ==
    [k \in {"unknown", "required", "email"} |->
        CASE k = "unknown" -> "This field has an error"
          [] k = "required" -> "This field is required"
          [] k = "email" -> "Please enter a valid email"]

\* the message looked up by key, whatever the value stored under the key
getErrorMessage_ByKeyOnly(key, value) ==
    IF key \in DOMAIN DefaultErrorMessages
       THEN DefaultErrorMessages[key] ELSE DefaultErrorMessages["unknown"]

\* a non-empty string stored under the key is the message; else the
\* default message of the key, else the one of 'unknown' (the profile
\* form passes no custom messages)
getErrorMessage(key, value) ==
    IF value # "true" /\ value # ""
       THEN value
       ELSE IF key \in DOMAIN DefaultErrorMessages
               THEN DefaultErrorMessages[key] ELSE DefaultErrorMessages["unknown"]

\* '' without errors; else the messages of the entries joined by '. '
RECURSIVE generateErrorMessage(_)
generateErrorMessage(errors) ==
    IF errors = {} THEN ""
    ELSE LET x == CHOOSE y \in errors : TRUE
             rest == errors \ {x}
         IN IF rest = {} THEN getErrorMessage(x.code, x.message)
            ELSE getErrorMessage(x.code, x.message) \o ". " \o generateErrorMessage(rest)

(***************************************************************************)
(* The error element with its two inputs, the errors of a control and the  *)
(* custom messages of its field: the ValidationErrorDirective and, before  *)
(* it, the ValidationErrorPipe.  The errors are the entries of the errors  *)
(* object in the order Object.entries gives them; the value stored under   *)
(* a code is true, a string, or something else (an object).                *)
(***************************************************************************)
\* the most entries an errors object has
MaxErrors == 2

ErrorCodes == {"required", "email", "duplicate_name"}

TrueValue == [kind |-> "true", text |-> ""]
StringValue(t) == [kind |-> "string", text |-> t]
ObjectValue == [kind |-> "object", text |-> ""]

ErrorValues == {TrueValue, StringValue(""), StringValue(ErrDupName.message), ObjectValue}

\* errors: null | undefined, or an object with one value per code
NullErrors == [isNull |-> TRUE, entries |-> <<>>]
ErrorsObject(entries) == [isNull |-> FALSE, entries |-> entries]

ErrorsObjects ==
    {ErrorsObject(es) :
        es \in {x \in UNION {[1..n -> [code : ErrorCodes, value : ErrorValues]] : n \in 0..MaxErrors} :
                   \A i, j \in 1..Len(x) : i # j => x[i].code # x[j].code}}

\* customMessages: the messages a field configures, by code; none when
\* the input is not bound
CustomMessageOf(code) ==
    IF code = "required" THEN "Please fill in the name" ELSE "Please pick another name"

CustomMessages ==
    {[k \in K |-> CustomMessageOf(k)] : K \in SUBSET {"required", "duplicate_name"}}

\* customMessages?.[key] || defaultErrorMessages[key] || defaultErrorMessages['unknown']
lookupMessage(custom, key) ==
    IF key \in DOMAIN custom THEN custom[key]
    ELSE IF key \in DOMAIN DefaultErrorMessages THEN DefaultErrorMessages[key]
    ELSE DefaultErrorMessages["unknown"]

\* a directive that looks the message up before it looks at the value
ValidationErrorDirective_getErrorMessage_LookupFirst(custom, key, value) ==
    lookupMessage(custom, key)

\* ValidationErrorDirective.getErrorMessage
ValidationErrorDirective_getErrorMessage(custom, key, value) ==
    IF value.kind = "string" /\ value.text # ""
       THEN value.text
       ELSE lookupMessage(custom, key)

\* the map callback of ValidationErrorPipe.transform
ValidationErrorPipe_message(custom, key, value) ==
    IF value.kind = "string" /\ value.text # ""
       THEN value.text
       ELSE IF value.kind = "true"
               THEN lookupMessage(custom, key)
               ELSE DefaultErrorMessages["unknown"]

\* Array.prototype.join('. ')
RECURSIVE join(_)
join(parts) ==
    IF parts = <<>> THEN ""
    ELSE IF Len(parts) = 1 THEN parts[1]
    ELSE parts[1] \o ". " \o join(Tail(parts))

\* Object.entries(errors).map(...): the message of each entry (variant 1
\* the pipe, variant 2 the directive)
messagesOf(variant, custom, errors) ==
    [i \in 1..Len(errors.entries) |->
        IF variant = 1
           THEN ValidationErrorPipe_message(custom, errors.entries[i].code,
                                            errors.entries[i].value)
           ELSE ValidationErrorDirective_getErrorMessage(custom, errors.entries[i].code,
                                                         errors.entries[i].value)]

\* generateErrorMessage / transform: '' for no errors object
renderErrors(variant, custom, errors) ==
    IF errors.isNull THEN "" ELSE join(messagesOf(variant, custom, errors))

\* the element: its inputs, whether it was rendered, the text it shows and
\* the messages the text was joined from
ErrorView(variant, custom, errors, rendered, text, parts) ==
    [variant |-> variant, custom |-> custom, errors |-> errors,
     rendered |-> rendered, text |-> text, parts |-> parts]

NoView == ErrorView(2, [k \in {} |-> ""], NullErrors, FALSE, "", <<>>)

(***************************************************************************)
(* FormHandlerService, which works on a form and on data of any shape.     *)
(* An object is a function from its keys to its values; null data is       *)
(* kept apart from the object without keys.                                *)
(***************************************************************************)
\* the longest errors array handed to setFormErrors
MaxEntries == 2

FormKeys == {"name", "avatar"}
DataKeys == {"id", "name", "avatar"}
FieldValues == {"ann", "zed"}

EmptyObject == [k \in {} |-> ""]
NullObject == [isNull |-> TRUE, obj |-> EmptyObject]
DataObject(obj) == [isNull |-> FALSE, obj |-> obj]

DataObjects ==
    {NullObject} \cup {DataObject(o) : o \in UNION {[K -> FieldValues] : K \in SUBSET DataKeys}}

ErrNameLength == [field |-> "name", code |-> "too_short", message |-> "Name too short"]
ErrAvatar == [field |-> "avatar", code |-> "too_large", message |-> "Image too large"]

\* the entries of an errors array; the form has no email control
ErrorEntries == {ErrDupName, ErrNameLength, ErrAvatar, ErrEmail}

\* what setFormErrors is called with: null, an object without an errors
\* array, an object with one
ErrorPayloads ==
    {NullErrorBody, CountersBody(0, 0)}
    \cup {ValidationBody(errs) : errs \in UNION {[1..n -> ErrorEntries] : n \in 0..MaxEntries}}

\* the object handed on whole, without a projection
pick_All(data, keys) ==
    IF data.isNull THEN EmptyObject ELSE data.obj

\* lodash pick(object, keys): the keys the object has; {} for null
pick(data, keys) ==
    IF data.isNull THEN EmptyObject
    ELSE [k \in keys \cap DOMAIN data.obj |-> data.obj[k]]

\* lodash isEqual on objects of primitive values
isEqual(a, b) == (DOMAIN a = DOMAIN b) /\ (\A k \in DOMAIN a : a[k] = b[k])

\* a form: the value and the errors of each of its controls (form.value,
\* control.errors); its controls are built like those of the profile form
NewForm(keys) == [value |-> [k \in keys |-> ""],
                  errors |-> [k \in keys |-> ValidatorErrors(k, "")]]

\* FormGroup.patchValue(value): a control whose key is missing keeps its value
formReset_Patch(form, obj) ==
    LET nv == [k \in DOMAIN form.value |->
                  IF k \in DOMAIN obj THEN obj[k] ELSE form.value[k]]
    IN [value |-> nv, errors |-> [k \in DOMAIN nv |-> ValidatorErrors(k, nv[k])]]

\* FormGroup.reset(value): every control takes value[key], null when the
\* key is missing, and the validators run
formReset(form, obj) ==
    LET nv == [k \in DOMAIN form.value |->
                  IF k \in DOMAIN obj THEN obj[k] ELSE NullValue]
    IN [value |-> nv, errors |-> [k \in DOMAIN nv |-> ValidatorErrors(k, nv[k])]]

FormHandlerService_updateForm(form, data) ==
    formReset(form, pick(data, DOMAIN form.value))

FormHandlerService_restoreForm(form, data) ==
    IF data.isNull THEN form ELSE FormHandlerService_updateForm(form, data)

\* form.setErrors(null) sets the errors of the group, which has none, and
\* leaves the controls alone
FormHandlerService_setFormErrors(form, payload) ==
    IF payload.isNull \/ ~payload.hasErrors THEN form
    ELSE [form EXCEPT !.errors = ApplyErrors(payload.errors, form.errors)]

\* whether setFormErrors raises: neither guard nor form.setErrors(null) can
FormHandlerService_setFormErrorsRaises(form, payload) ==
    IF payload.isNull \/ ~payload.hasErrors THEN FALSE
    ELSE ApplyErrorsRaises(payload.errors, form.errors)

\* the comparison that takes null data for an empty object
FormHandlerService_isFormPristine_NullAsEmpty(form, lastSavedData) ==
    isEqual(form.value, pick(lastSavedData, DOMAIN form.value))

\* Boolean(form.value) is true of every object
FormHandlerService_isFormPristine(form, lastSavedData) ==
    /\ ~lastSavedData.isNull
    /\ TRUE
    /\ isEqual(form.value, pick(lastSavedData, DOMAIN form.value))

\* form.valid: the group is VALID when none of its controls has an error
FormHandlerService_formValid(form) == \A k \in DOMAIN form.errors : form.errors[k] = {}

\* a Save button that does not look at the validity of the form
FormHandlerService_isSaveDisabled_IgnoreValidity(form, lastSavedData, inProgress) ==
    FormHandlerService_isFormPristine(form, lastSavedData) \/ inProgress

FormHandlerService_isSaveDisabled(form, lastSavedData, inProgress) ==
    \/ ~FormHandlerService_formValid(form)
    \/ FormHandlerService_isFormPristine(form, lastSavedData)
    \/ inProgress

\* a Reset button that is disabled for an invalid form as well
FormHandlerService_isResetDisabled_LikeSave(form, lastSavedData, inProgress) ==
    FormHandlerService_isSaveDisabled(form, lastSavedData, inProgress)

FormHandlerService_isResetDisabled(form, lastSavedData, inProgress) ==
    FormHandlerService_isFormPristine(form, lastSavedData) \/ inProgress

(***************************************************************************)
(* What one delivery makes the chain do: the callbacks it runs, in the     *)
(* order in which they run.                                                *)
(*   Notify             a snackbar is opened (src: interceptor | pipeline) *)
(*   Progress           the upload progress callback                       *)
(*   Success            the response data callback                         *)
(*   ValidationFailure  the validation errors callback                     *)
(*   TransportFailure   an error leaves the validation stage: it reaches   *)
(*                      tapError or catchError (src: pipeline) or the      *)
(*                      subscriber, which has no error handler (src:       *)
(*                      unhandled)                                         *)
(*   Reset              the finalize callback                              *)
(***************************************************************************)
Eff(tag, src, msg, n, data, ebody, kind, marked) ==
    [tag |-> tag, src |-> src, msg |-> msg, n |-> n, data |-> data,
     ebody |-> ebody, kind |-> kind, marked |-> marked]

NotifyEff(src, msg) == Eff("Notify", src, msg, 0, NullData, NullErrorBody, "none", FALSE)
ProgressEff(n) == Eff("Progress", "pipeline", "", n, NullData, NullErrorBody, "none", FALSE)
SuccessEff(d) == Eff("Success", "pipeline", "", 0, d, NullErrorBody, "none", FALSE)
ValidationEff(eb) == Eff("ValidationFailure", "pipeline", "", 0, NullData, eb, "none", FALSE)
FailureEff(src, err) ==
    Eff("TransportFailure", src, "", 0, NullData, NullErrorBody, FailureKind(err), tapErrorWasCaught(err))
ResetEff == Eff("Reset", "pipeline", "", 0, NullData, NullErrorBody, "none", FALSE)

TerminalTags == {"Success", "ValidationFailure", "TransportFailure"}

RECURSIVE Notes(_)
Notes(msgs) ==
    IF msgs = <<>> THEN <<>>
    ELSE <<NotifyEff("interceptor", Head(msgs))>> \o Notes(Tail(msgs))

\* body.data of a body the shape checks did not look at: undefined reads
\* as no data
DataOf(body) == IF body.hasData THEN body.data ELSE NullData

\* the load with the flag cleared at the start of each handler
loadUserData_ResetFirst(x) ==
    IF x.type = "Error"
       THEN <<ResetEff, FailureEff("pipeline", x)>>
    ELSE IF x.type = "Response"
       THEN <<ResetEff>> \o
            (IF tapResponseDataFires(BodyEvent(x.body))
                THEN <<SuccessEff(x.body.data)>> ELSE <<>>)
    ELSE <<>>

\* loadUserData, lines 295-321: finalize, tapResponseData, tapError.
\* HttpClient.get observes the body: only the response gets through, as
\* its body, and the stream completes after it.
loadUserData(x) ==
    IF x.type = "Error"
       THEN <<FailureEff("pipeline", x), ResetEff>>
    ELSE IF x.type = "Response"
       THEN (IF tapResponseDataFires(BodyEvent(x.body))
                THEN <<SuccessEff(x.body.data)>> ELSE <<>>)
            \o <<ResetEff>>
    ELSE <<>>

\* loadUserData, lines 104-131: map(response => response.data), finalize,
\* catchError, subscribe(next)
loadUserData1(x) ==
    IF x.type = "Error"
       THEN <<FailureEff("pipeline", x), ResetEff>>
    ELSE IF x.type = "Response"
       THEN IF x.body.isNull
               THEN <<FailureEff("pipeline", TypeErrorEvent), ResetEff>>
               ELSE <<SuccessEff(DataOf(x.body)), ResetEff>>
    ELSE <<>>

\* saveUserData, lines 327-363: finalize, tapResponseData,
\* tapValidationErrors, tapUploadProgress, subscribe()
saveUserData(x) ==
    IF x.type = "Error"
       THEN IF tapValidationErrorsCatches(x)
               THEN <<ValidationEff(x.ebody), ResetEff>>
               ELSE <<FailureEff("unhandled", x), ResetEff>>
    ELSE (IF tapResponseDataFires(x)
             THEN <<SuccessEff(x.body.data), NotifyEff("pipeline", MsgSaved)>> ELSE <<>>)
         \o (IF tapUploadProgressFires(x)
                THEN <<ProgressEff(ProgressPercent(x.loaded, x.total))>> ELSE <<>>)
         \o (IF x.type = "Response" THEN <<ResetEff>> ELSE <<>>)

\* saveUserData, lines 143-183: finalize, tapValidationErrors,
\* tapUploadProgress, catchError (notify and rethrow), subscribe(next)
saveUserData1(x) ==
    IF x.type = "Error"
       THEN IF tapValidationErrorsCatches(x)
               THEN <<ValidationEff(x.ebody), ResetEff>>
               ELSE <<NotifyEff("pipeline", MsgUnexpected),
                      FailureEff("unhandled", x), ResetEff>>
    ELSE (IF tapUploadProgressFires(x)
             THEN <<ProgressEff(ProgressPercent(x.loaded, x.total))>> ELSE <<>>)
         \o (IF x.type = "Response"
                THEN (IF x.body.isNull
                         THEN <<>>
                         ELSE <<SuccessEff(DataOf(x.body)), NotifyEff("pipeline", MsgSaved)>>)
                     \o <<ResetEff>>
                ELSE <<>>)

\* the effects of delivering the raw transport event ev to a request
Effects(iv, cv, kind, ev) ==
    LET out == serverErrorInterceptor(iv, ev) IN
    Notes(out.notes) \o
        (CASE kind = "load" /\ cv = 2 -> loadUserData(out.ev)
           [] kind = "load" /\ cv = 1 -> loadUserData1(out.ev)
           [] kind = "save" /\ cv = 2 -> saveUserData(out.ev)
           [] kind = "save" /\ cv = 1 -> saveUserData1(out.ev))

(***************************************************************************)
(* The state changes of the callbacks.                                     *)
(***************************************************************************)
InProgressFlag(st, kind) ==
    IF kind = "load" THEN st.isLoadRequestInProgress ELSE st.isSaveRequestInProgress

\* the finalize callback of a save that resets the progress and leaves
\* the flag set
finalizeCallback_KeepFlag(st, kind) ==
    IF kind = "load"
       THEN [st EXCEPT !.isLoadRequestInProgress = FALSE]
       ELSE [st EXCEPT !.uploadProgress = 0]

\* the finalize callback that leaves the upload progress as it is
finalizeCallback_KeepProgress(st, kind) ==
    IF kind = "load"
       THEN [st EXCEPT !.isLoadRequestInProgress = FALSE]
       ELSE [st EXCEPT !.isSaveRequestInProgress = FALSE]

\* the finalize callbacks of loadUserData and saveUserData
finalizeCallback(st, kind) ==
    IF kind = "load"
       THEN [st EXCEPT !.isLoadRequestInProgress = FALSE]
       ELSE [st EXCEPT !.isSaveRequestInProgress = FALSE, !.uploadProgress = 0]

\* the callbacks that store the record and leave the form of a save alone
responseDataCallback_RecordOnly(st, kind, data) ==
    IF kind = "load"
       THEN updateForm([st EXCEPT !.hasLoadingError = FALSE, !.userData = data], data)
       ELSE [st EXCEPT !.userData = data]

\* the response data callbacks of loadUserData and saveUserData
responseDataCallback(st, kind, data) ==
    IF kind = "load"
       THEN updateForm([st EXCEPT !.hasLoadingError = FALSE, !.userData = data], data)
       ELSE restoreForm([st EXCEPT !.userData = data])

\* the callback showing what is left of the upload
uploadProgressCallback_Remaining(st, progress) ==
    [st EXCEPT !.uploadProgress = 100 - progress]

\* the upload progress callback of saveUserData
uploadProgressCallback(st, progress) ==
    [st EXCEPT !.uploadProgress = progress]

\* the callbacks with a failure callback that drops the record
RunCallback_DropOnFailure(st, kind, e) ==
    CASE e.tag = "Progress" -> uploadProgressCallback(st, e.n)
      [] e.tag = "Success" -> responseDataCallback(st, kind, e.data)
      [] e.tag = "ValidationFailure" -> setFormErrors(st, e.ebody)
      [] e.tag = "TransportFailure" ->
            [st EXCEPT !.hasLoadingError = (kind = "load"), !.userData = NullData]
      [] e.tag = "Reset" -> finalizeCallback(st, kind)
      [] OTHER -> st

\* the callback of one effect, run on the component state st
RunCallback(st, kind, e) ==
    CASE e.tag = "Progress" -> uploadProgressCallback(st, e.n)
      [] e.tag = "Success" -> responseDataCallback(st, kind, e.data)
      [] e.tag = "ValidationFailure" -> setFormErrors(st, e.ebody)
      [] e.tag = "TransportFailure" /\ kind = "load" ->
            [st EXCEPT !.hasLoadingError = TRUE]
      [] e.tag = "Reset" -> finalizeCallback(st, kind)
      [] OTHER -> st

\* a log entry: the effect and the in-progress flag of the request's kind
\* at the moment the callback starts
LogEntry(st, kind, e) ==
    [tag |-> e.tag, src |-> e.src, msg |-> e.msg, n |-> e.n, data |-> e.data,
     errs |-> e.ebody.errors, kind |-> e.kind, marked |-> e.marked,
     inProgress |-> InProgressFlag(st, kind)]

RECURSIVE Run(_, _, _)
Run(st, kind, effs) ==
    IF effs = <<>> THEN st
    ELSE LET e == Head(effs)
             st1 == RunCallback(st, kind, e)
         IN Run([st1 EXCEPT !.log = Append(st.log, LogEntry(st, kind, e))], kind, Tail(effs))

(***************************************************************************)
(* ImageFormControlComponent, the control of the avatar field.  A blob URL *)
(* is a handle with a number; the control counts the handles it created    *)
(* and the environment keeps the set of the revoked ones.  The source      *)
(* holds two variants of the component, which differ in writeValue.        *)
(***************************************************************************)
\* the files the user selects in the life of one control
MaxFiles == 3

\* the values of imgSrc: undefined, a string that is not a blob URL, a
\* blob URL
UndefinedSrc == [kind |-> "undefined", text |-> "", id |-> 0]
TextSrc(t) == [kind |-> "text", text |-> t, id |-> 0]
BlobSrc(k) == [kind |-> "blob", text |-> "blob:", id |-> k]

\* what the form model writes: null (reset without a value) or the avatar
\* of the record
WrittenValues == {NullValue, "ann.png", "bob.png"}

\* `http://localhost:3000/images/${value}`
ImageAddress(value) ==
    IF value = "ann.png" THEN "http://localhost:3000/images/ann.png"
    ELSE "http://localhost:3000/images/bob.png"

NewImageControl(variant) ==
    [variant |-> variant, imgSrc |-> UndefinedSrc, created |-> 0, revoked |-> {},
     destroyed |-> FALSE, op |-> "none"]

\* imgSrc && imgSrc.startsWith('blob:')
isBlobURL(src) == src.kind = "blob"

\* generateImageURL: URL.createObjectURL(file) makes a new handle
generateImageURL(c) == BlobSrc(c.created + 1)

\* revokeImageURL: a blob URL in imgSrc is revoked and imgSrc cleared
revokeImageURL(c) ==
    IF isBlobURL(c.imgSrc)
       THEN [c EXCEPT !.revoked = c.revoked \cup {c.imgSrc.id}, !.imgSrc = UndefinedSrc]
       ELSE c

\* onImageSelected with a file: the previous blob URL is revoked, the new
\* one stored (and, in the later variant, the file handed to onChange)
onImageSelected(c) ==
    LET c1 == revokeImageURL(c) IN
    [c1 EXCEPT !.imgSrc = generateImageURL(c1), !.created = c1.created + 1,
               !.op = "select"]

\* writeValue: imgSrc is assigned, and what it held is not looked at.  The
\* earlier variant stores the address of the image on the server, '' for
\* a null value; the later one stores the value as it comes.
writeValue(c, value) ==
    [c EXCEPT !.imgSrc =
                 IF c.variant = 1
                    THEN (IF value = NullValue THEN TextSrc("")
                          ELSE TextSrc(ImageAddress(value)))
                    ELSE TextSrc(value),
              !.op = "write"]

\* ngOnDestroy: revokeImageURL
ngOnDestroy(c) ==
    [revokeImageURL(c) EXCEPT !.destroyed = TRUE, !.op = "destroy"]

(***************************************************************************)
(* The backend: GET and PUT /users/:id on the users of db.json.  A user    *)
(* and a request body are objects, functions from their keys to strings    *)
(* (ids are compared as strings); variant 1 is the server without          *)
(* uploads, variant 2 the one with avatars.                                *)
(***************************************************************************)
\* {...a, ...b}
spread(a, b) ==
    [k \in DOMAIN a \cup DOMAIN b |-> IF k \in DOMAIN b THEN b[k] ELSE a[k]]

\* an object with one more property
withProperty(obj, key, value) == spread(obj, [k \in {key} |-> value])

\* an object without a property (JSON.stringify drops undefined)
withoutProperty(obj, key) == [k \in DOMAIN obj \ {key} |-> obj[k]]

UserIds == {"1", "2"}
RequestedIds == UserIds \cup {"3"}

\* db.json as the server finds it: two users, the first with or without
\* an avatar
InitialUsers(withAvatar) ==
    [id \in UserIds |->
        IF id = "1"
           THEN IF withAvatar
                   THEN [k \in {"id", "name", "email", "avatar"} |->
                           CASE k = "id" -> "1" [] k = "name" -> "ann"
                             [] k = "email" -> "a@b.c" [] k = "avatar" -> "ann.png"]
                   ELSE [k \in {"id", "name", "email"} |->
                           CASE k = "id" -> "1" [] k = "name" -> "ann" [] k = "email" -> "a@b.c"]
           ELSE [k \in {"id", "name", "email"} |->
                   CASE k = "id" -> "2" [] k = "name" -> "bob" [] k = "email" -> "b@b.c"]]

\* req.body of a PUT: the text fields of the form data
RequestNames == {"ann", "bob", "error"}
RequestBodies ==
    {[k \in {"name"} |-> n] : n \in RequestNames}
    \cup {[k \in {"name", "email"} |-> IF k = "name" THEN n ELSE "z@b.c"] : n \in RequestNames}

\* req.file?.filename: no file, or the name multer gave the upload
NoFile == ""
UploadedFiles == {NoFile, "17-zed.png"}

\* a reply: its status and the message, errors and data of its body
Reply(status, message, errors, hasData, data) ==
    [status |-> status, message |-> message, errors |-> errors,
     hasData |-> hasData, data |-> data]

NoReply == Reply(0, "", <<>>, FALSE, EmptyObject)
OkReply(data) == Reply(StatusOk, "", <<>>, TRUE, data)

\* getAvatarUrl: '' without a file name (host localhost:3000)
getAvatarUrl(user) ==
    IF "avatar" \in DOMAIN user /\ user["avatar"] # ""
       THEN "http://localhost:3000/images/" \o user["avatar"]
       ELSE ""

\* buildUserDataResponse: { ...user, avatar }
buildUserDataResponse(user) == withProperty(user, "avatar", getAvatarUrl(user))

\* what a GET sends as data: the user (variant 1), the user with the
\* avatar URL (variant 2)
getUserReplyData(variant, user) ==
    IF variant = 1 THEN user ELSE buildUserDataResponse(user)

\* app.get('/users/:id')
getUser(variant, users, id) ==
    IF id \notin DOMAIN users
       THEN Reply(404, "User ID not found", <<>>, FALSE, EmptyObject)
       ELSE OkReply(getUserReplyData(variant, users[id]))

\* updatedUserData after the avatar was settled (variant 2): the name of
\* the uploaded file, else the avatar of the existing user, undefined when
\* that one has none
updatedUserDataOf(variant, existingUser, body, file) ==
    IF variant = 1 THEN body
    ELSE IF file # NoFile THEN withProperty(body, "avatar", file)
    ELSE IF "avatar" \in DOMAIN existingUser
            THEN withProperty(body, "avatar", existingUser["avatar"])
            ELSE withoutProperty(body, "avatar")

\* updatedUser = {...user, ...updatedUserData}, the record written to the
\* file
updatedUserOf(variant, existingUser, body, file) ==
    spread(existingUser, updatedUserDataOf(variant, existingUser, body, file))

\* the data a successful PUT sends: updatedUser (variant 1),
\* buildUserDataResponse(req, updatedUserData) (variant 2)
putReplyData(variant, existingUser, body, file) ==
    IF variant = 1
       THEN updatedUserOf(variant, existingUser, body, file)
       ELSE buildUserDataResponse(updatedUserDataOf(variant, existingUser, body, file))

\* the statuses of a PUT in the order of its checks: 500 (variant 2,
\* name 'error'), 404, 400, 200
putStatus(variant, users, id, body) ==
    IF variant = 2 /\ body["name"] = "error" THEN 500
    ELSE IF id \notin DOMAIN users THEN 404
    ELSE IF \E other \in DOMAIN users : other # id /\ users[other]["name"] = body["name"]
            THEN StatusBadRequest
    ELSE StatusOk

\* app.put('/users/:id'): the users after the request
putUsers(variant, users, id, body, file) ==
    IF putStatus(variant, users, id, body) = StatusOk
       THEN [users EXCEPT ![id] = updatedUserOf(variant, users[id], body, file)]
       ELSE users

\* app.put('/users/:id'): the reply
putUser(variant, users, id, body, file) ==
    CASE putStatus(variant, users, id, body) = 500 ->
            Reply(500, "", <<>>, FALSE, EmptyObject)
      [] putStatus(variant, users, id, body) = 404 ->
            Reply(404, "User ID is missing or invalid", <<>>, FALSE, EmptyObject)
      [] putStatus(variant, users, id, body) = StatusBadRequest ->
            Reply(StatusBadRequest, "Validation errors", <<ErrDupName>>, FALSE, EmptyObject)
      [] OTHER -> OkReply(putReplyData(variant, users[id], body, file))

\* the server: its variant, its users, the last request and its reply
Server(variant, users, method, id, reply) ==
    [variant |-> variant, users |-> users, method |-> method, id |-> id, reply |-> reply]

NoServer == Server(2, InitialUsers(TRUE), "none", "", NoReply)

(***************************************************************************)
(* tapError: catchError around a source, the callback, then EMPTY.         *)
(* A stream is what the source sent, the calls of the callback (one        *)
(* tuple of arguments per call) and what the subscriber received.          *)
(*   variant 1   tapError(callback: (error, wasCaught?) => void)           *)
(*   variant 2   tapError(callback: (error) => void)                       *)
(***************************************************************************)
MaxEmitted == 3

StreamValues == {"a", "b"}

NoError == [class |-> "none"]

\* the errors a request raises: an HttpErrorResponse, the interceptor's
\* HttpResponseBodyFormatError (neither has a wasCaught property) and its
\* HttpNoNetworkConnectionError, constructed with wasCaught = false and
\* marked by the interceptor
ThrownErrors ==
    {[class |-> "HttpErrorResponse"],
     [class |-> "HttpResponseBodyFormatError"],
     [class |-> "HttpNoNetworkConnectionError", wasCaught |-> FALSE],
     [class |-> "HttpNoNetworkConnectionError", wasCaught |-> TRUE]}

Notification(kind, value, error) == [kind |-> kind, value |-> value, error |-> error]

NextNotification(v) == Notification("next", v, NoError)
ErrorNotification(e) == Notification("error", "", e)
CompleteNotification == Notification("complete", "", NoError)

\* Reflect.get(error, 'wasCaught') || false
tapError_wasCaught(error) == "wasCaught" \in DOMAIN error /\ error.wasCaught

\* callback(error, wasCaught) and callback(error)
tapError_callbackArguments(variant, error) ==
    IF variant = 1 THEN <<error, tapError_wasCaught(error)>> ELSE <<error>>

\* the operator with the error thrown again after the callback
tapError_Rethrow(variant, error) ==
    [calls |-> <<tapError_callbackArguments(variant, error)>>,
     out |-> <<ErrorNotification(error)>>]

\* the selector of catchError: the callback, then EMPTY, which completes
tapError(variant, error) ==
    [calls |-> <<tapError_callbackArguments(variant, error)>>,
     out |-> <<CompleteNotification>>]

Stream(variant, sent, calls, out) ==
    [variant |-> variant, sent |-> sent, calls |-> calls, out |-> out]

NoStream == Stream(1, <<>>, <<>>, <<>>)

\* the source has sent its error or its completion
SourceStopped(st) == st.sent # <<>> /\ st.sent[Len(st.sent)].kind # "next"

\* values sent so far
Emitted(st) == Cardinality({i \in 1..Len(st.sent) : st.sent[i].kind = "next"})


(***************************************************************************)
(* State.                                                                  *)
(***************************************************************************)
VARIABLES
    interceptorVersion,       \* which serverErrorInterceptor the build has
    componentVersion,         \* which UserProfileComponent the build has
    initialized,              \* ngOnInit has run
    userData,                 \* the last record received, NullData for null
    formValue,                \* form.value
    controlErrors,            \* the errors of each control
    isLoadRequestInProgress,
    hasLoadingError,
    isSaveRequestInProgress,
    uploadProgress,
    req,                      \* the requests, one per slot
    svc,                      \* a FormHandlerService: its form and its last call
    lastSaveFailedOn,         \* the fields named by the validation failure of
                              \* the last resolved save (last) and of the save
                              \* resolved before it (before); {} for no failure
    img,                      \* an ImageFormControlComponent
    view,                     \* an error element: the errors and custom messages
                              \* bound to it and the text it shows
    calledWhileDisabled,      \* whether saveUserData was ever called while
                              \* isSaveButtonDisabled was true
    server,                   \* the backend: its users file and its last reply
    stream                    \* a stream piped through tapError: what the source
                              \* sent, the callback's calls, what got through

componentVars == <<interceptorVersion, componentVersion, initialized, userData, formValue,
                   controlErrors, isLoadRequestInProgress, hasLoadingError,
                   isSaveRequestInProgress, uploadProgress, req>>

NoFailedSave == [last |-> {}, before |-> {}]

\* what the profile component leaves alone
aside == <<svc, lastSaveFailedOn, img, view, calledWhileDisabled, server, stream>>

\* what a call of the FormHandlerService, and what the image control,
\* leaves alone
besideService == <<componentVars, lastSaveFailedOn, img, view, calledWhileDisabled, server, stream>>
besideImage == <<componentVars, svc, lastSaveFailedOn, view, calledWhileDisabled, server, stream>>

vars == <<componentVars, svc, lastSaveFailedOn, img, view, calledWhileDisabled, server, stream>>

\* a call of the service: the method, its arguments, the form before the
\* call and the value returned
ServiceCall(form, op, data, payload, out, before) ==
    [form |-> form, op |-> op, data |-> data, payload |-> payload,
     out |-> out, before |-> before, inProgress |-> FALSE]

\* a call of one of the two button guards, with its in-progress argument
GuardCall(form, op, data, inProgress, out) ==
    [ServiceCall(form, op, data, NullErrorBody, out, form) EXCEPT !.inProgress = inProgress]

\* the service of the profile component is not called on its own
NoService == ServiceCall(NewForm({}), "none", NullObject, NullErrorBody, FALSE, NewForm({}))

Slots == 1..MaxSlots

\* the last delivery to a request: the transport event, the event that left
\* the interceptor for the chain, and the length of the log before it
NoDelivery == [ev |-> SentEvent, out |-> SentEvent, mark |-> 0, any |-> FALSE]

\* a slot nothing was issued in yet
FreeSlot == [phase |-> "free", kind |-> "none", nevents |-> 0, from |-> 0,
             raw |-> SentEvent, log |-> <<>>, last |-> NoDelivery, totals |-> {}]

IssuedSlot(kind) == [phase |-> "inflight", kind |-> kind, nevents |-> 0, from |-> 0,
                     raw |-> SentEvent, log |-> <<>>, last |-> NoDelivery, totals |-> {}]

\* the totals the upload progress events of a request have reported so far
NextTotals(ev, totals) ==
    IF ev.type = "UploadProgress" /\ ev.total # 0 THEN totals \cup {ev.total} ELSE totals

\* the record of a resolved request is kept until the next step of the
\* component
Forget(r) == IF r.phase = "done" THEN FreeSlot ELSE r

\* the slot a new request takes: the lowest one with no request in flight
\* (a request whose exchange was cancelled stays subscribed and keeps its
\* slot)
CanIssue == \E s \in Slots : req[s].phase \in {"free", "done"}
\* a new request that takes the place of the one in the first slot
NextSlot_First == CHOOSE s \in Slots : \A t \in Slots : s <= t

NextSlot == CHOOSE s \in Slots :
                /\ req[s].phase \in {"free", "done"}
                /\ \A t \in Slots : req[t].phase \in {"free", "done"} => s <= t

Init ==
    /\ interceptorVersion \in {1, 2}
    /\ componentVersion \in {1, 2}
    /\ initialized = FALSE
    /\ userData = NullData
    /\ formValue = InitialValue
    /\ controlErrors = InitialErrors
    /\ isLoadRequestInProgress = FALSE
    /\ hasLoadingError = FALSE
    /\ isSaveRequestInProgress = FALSE
    /\ uploadProgress = 0
    /\ req = [s \in Slots |-> FreeSlot]
    /\ svc = NoService
    /\ lastSaveFailedOn = NoFailedSave
    /\ img = NewImageControl(2)
    /\ view = NoView
    /\ calledWhileDisabled = FALSE
    /\ server = NoServer
    /\ stream = NoStream

isSaveButtonDisabled == isSaveDisabled(formValue, controlErrors, userData, isSaveRequestInProgress)
isResetButtonDisabled == isResetDisabled(formValue, userData, isSaveRequestInProgress)

\* ngOnInit: loadUserData sets the flag and subscribes
ngOnInit ==
    /\ ~initialized
    /\ CanIssue
    /\ initialized' = TRUE
    /\ isLoadRequestInProgress' = TRUE
    /\ req' = [s \in Slots |-> IF s = NextSlot THEN IssuedSlot("load") ELSE Forget(req[s])]
    /\ UNCHANGED <<interceptorVersion, componentVersion, userData, formValue, controlErrors,
                   hasLoadingError, isSaveRequestInProgress, uploadProgress>>
    /\ UNCHANGED aside

\* the Save button, enabled by isSaveButtonDisabled: saveUserData sets the
\* flag and subscribes
SaveClick ==
    /\ initialized
    /\ ~isSaveButtonDisabled
    /\ CanIssue
    /\ isSaveRequestInProgress' = TRUE
    /\ req' = [s \in Slots |-> IF s = NextSlot THEN IssuedSlot("save") ELSE Forget(req[s])]
    /\ UNCHANGED <<interceptorVersion, componentVersion, initialized, userData, formValue,
                   controlErrors, isLoadRequestInProgress, hasLoadingError, uploadProgress>>
    /\ UNCHANGED aside

\* the Reset button, enabled by isResetButtonDisabled: restoreForm
ResetClick ==
    /\ initialized
    /\ ~isResetButtonDisabled
    /\ LET st == restoreForm([userData |-> userData, formValue |-> formValue,
                              controlErrors |-> controlErrors])
       IN /\ formValue' = st.formValue
          /\ controlErrors' = st.controlErrors
    /\ req' = [s \in Slots |-> Forget(req[s])]
    /\ UNCHANGED <<interceptorVersion, componentVersion, initialized, userData,
                   isLoadRequestInProgress, hasLoadingError, isSaveRequestInProgress,
                   uploadProgress>>
    /\ UNCHANGED aside

\* the values the user types or picks
EditValues(f) ==
    CASE f = "name" -> {"zed"}
      [] f = "email" -> {"bad"}
      [] f = "address" -> {}
      [] f = "avatar" -> {BlobValue}

\* the user changes one control: its validators run again
Edit ==
    /\ initialized
    /\ \E f \in Fields : \E v \in EditValues(f) :
          /\ formValue[f] # v
          /\ formValue' = [formValue EXCEPT ![f] = v]
          /\ controlErrors' = [controlErrors EXCEPT ![f] = ValidatorErrors(f, v)]
    /\ req' = [s \in Slots |-> Forget(req[s])]
    /\ UNCHANGED <<interceptorVersion, componentVersion, initialized, userData,
                   isLoadRequestInProgress, hasLoadingError, isSaveRequestInProgress,
                   uploadProgress>>
    /\ UNCHANGED aside

\* the component state as the record the callbacks work on
ComponentState(log) ==
    [userData |-> userData, formValue |-> formValue, controlErrors |-> controlErrors,
     isLoadRequestInProgress |-> isLoadRequestInProgress,
     hasLoadingError |-> hasLoadingError,
     isSaveRequestInProgress |-> isSaveRequestInProgress,
     uploadProgress |-> uploadProgress, log |-> log]

\* the transport delivers ev to the request in slot s; the interceptor and
\* the chain of the request handle it to the end
Handle(s, ev, terminal) ==
    \E r \in {req[s]} :
    \E st \in {Run(ComponentState(r.log), r.kind,
                    Effects(interceptorVersion, componentVersion, r.kind, ev))} :
       /\ userData' = st.userData
       /\ formValue' = st.formValue
       /\ controlErrors' = st.controlErrors
       /\ isLoadRequestInProgress' = st.isLoadRequestInProgress
       /\ hasLoadingError' = st.hasLoadingError
       /\ isSaveRequestInProgress' = st.isSaveRequestInProgress
       /\ uploadProgress' = st.uploadProgress
       /\ req' = [t \in Slots |->
                    IF t # s THEN (IF terminal THEN Forget(req[t]) ELSE req[t]) ELSE
                    [phase |-> IF terminal THEN "done" ELSE "inflight",
                     kind |-> r.kind,
                     nevents |-> IF terminal THEN r.nevents ELSE r.nevents + 1,
                     from |-> IF terminal THEN r.from ELSE NextLoaded(ev, r.from),
                     raw |-> IF terminal THEN ev ELSE r.raw,
                     log |-> st.log,
                     last |-> [ev |-> ev,
                               out |-> serverErrorInterceptor(interceptorVersion, ev).ev,
                               mark |-> Len(r.log), any |-> TRUE],
                     totals |-> NextTotals(ev, r.totals)]]
       /\ UNCHANGED <<interceptorVersion, componentVersion, initialized>>

\* a non-terminal event
DeliverEvent ==
    /\ \E s \in Slots :
        /\ req[s].phase = "inflight"
        /\ req[s].nevents < MaxEvents
        /\ \E ev \in ValueEvents(req[s].kind, req[s].nevents = 0, req[s].from,
                                  req[s].totals) :
              Handle(s, ev, FALSE)
    /\ UNCHANGED aside

\* the terminal event: the response, followed by completion, or the error
DeliverTerminal ==
    /\ \E s \in Slots :
        /\ req[s].phase = "inflight"
        /\ \E ev \in TerminalEvents : Handle(s, ev, TRUE)
    /\ UNCHANGED aside

Next ==
    \/ ngOnInit
    \/ SaveClick
    \/ ResetClick
    \/ Edit
    \/ DeliverEvent
    \/ DeliverTerminal

Spec == Init /\ [][Next]_vars

(***************************************************************************)
(* The FormHandlerService on its own: a form of any key set, and calls of  *)
(* its methods with any data and any error payload, in any order.          *)
(***************************************************************************)
FormInit ==
    /\ interceptorVersion = 1
    /\ componentVersion = 2
    /\ initialized = FALSE
    /\ userData = NullData
    /\ formValue = InitialValue
    /\ controlErrors = InitialErrors
    /\ isLoadRequestInProgress = FALSE
    /\ hasLoadingError = FALSE
    /\ isSaveRequestInProgress = FALSE
    /\ uploadProgress = 0
    /\ req = [s \in Slots |-> FreeSlot]
    /\ lastSaveFailedOn = NoFailedSave
    /\ img = NewImageControl(2)
    /\ view = NoView
    /\ calledWhileDisabled = FALSE
    /\ server = NoServer
    /\ stream = NoStream
    /\ \E keys \in SUBSET FormKeys :
          svc = ServiceCall(NewForm(keys), "none", NullObject, NullErrorBody, FALSE,
                            NewForm(keys))

CallUpdateForm ==
    /\ \E data \in DataObjects :
          svc' = ServiceCall(FormHandlerService_updateForm(svc.form, data), "updateForm",
                             data, NullErrorBody, FALSE, svc.form)
    /\ UNCHANGED besideService

CallRestoreForm ==
    /\ \E data \in DataObjects :
          svc' = ServiceCall(FormHandlerService_restoreForm(svc.form, data), "restoreForm",
                             data, NullErrorBody, FALSE, svc.form)
    /\ UNCHANGED besideService

CallSetFormErrors ==
    /\ \E payload \in ErrorPayloads :
          svc' = ServiceCall(FormHandlerService_setFormErrors(svc.form, payload),
                             "setFormErrors", NullObject, payload,
                             FormHandlerService_setFormErrorsRaises(svc.form, payload),
                             svc.form)
    /\ UNCHANGED besideService

CallIsFormPristine ==
    /\ \E data \in DataObjects :
          svc' = ServiceCall(svc.form, "isFormPristine", data, NullErrorBody,
                             FormHandlerService_isFormPristine(svc.form, data), svc.form)
    /\ UNCHANGED besideService

CallIsSaveDisabled ==
    /\ \E data \in DataObjects : \E inProgress \in BOOLEAN :
          svc' = GuardCall(svc.form, "isSaveDisabled", data, inProgress,
                           FormHandlerService_isSaveDisabled(svc.form, data, inProgress))
    /\ UNCHANGED besideService

CallIsResetDisabled ==
    /\ \E data \in DataObjects : \E inProgress \in BOOLEAN :
          svc' = GuardCall(svc.form, "isResetDisabled", data, inProgress,
                           FormHandlerService_isResetDisabled(svc.form, data, inProgress))
    /\ UNCHANGED besideService

\* the user changes a control of the form: its validators run again
UserInput ==
    /\ \E k \in DOMAIN svc.form.value : \E v \in FieldValues \cup {""} :
          /\ svc.form.value[k] # v
          /\ svc' = ServiceCall([value |-> [svc.form.value EXCEPT ![k] = v],
                                 errors |-> [svc.form.errors EXCEPT ![k] = ValidatorErrors(k, v)]],
                                "input", NullObject, NullErrorBody, FALSE, svc.form)
    /\ UNCHANGED besideService

FormNext ==
    \/ CallUpdateForm
    \/ CallRestoreForm
    \/ CallSetFormErrors
    \/ CallIsFormPristine
    \/ CallIsSaveDisabled
    \/ CallIsResetDisabled
    \/ UserInput

FormSpec == FormInit /\ [][FormNext]_vars

(***************************************************************************)
(* The ImageFormControlComponent on its own: file selections, values       *)
(* written by the form model (reset, restore after a load or a save) and   *)
(* the teardown, in any order.                                             *)
(***************************************************************************)
ImageInit ==
    /\ interceptorVersion = 1
    /\ componentVersion = 2
    /\ initialized = FALSE
    /\ userData = NullData
    /\ formValue = InitialValue
    /\ controlErrors = InitialErrors
    /\ isLoadRequestInProgress = FALSE
    /\ hasLoadingError = FALSE
    /\ isSaveRequestInProgress = FALSE
    /\ uploadProgress = 0
    /\ req = [s \in Slots |-> FreeSlot]
    /\ svc = NoService
    /\ lastSaveFailedOn = NoFailedSave
    /\ \E variant \in {1, 2} : img = NewImageControl(variant)
    /\ view = NoView
    /\ calledWhileDisabled = FALSE
    /\ server = NoServer
    /\ stream = NoStream

\* the user picks a file in the file dialog
SelectFile ==
    /\ ~img.destroyed
    /\ img.created < MaxFiles
    /\ img' = onImageSelected(img)
    /\ UNCHANGED besideImage

\* the form model writes a value into the control
WriteValue ==
    /\ ~img.destroyed
    /\ \E value \in WrittenValues : img' = writeValue(img, value)
    /\ UNCHANGED besideImage

\* the control is torn down
DestroyControl ==
    /\ ~img.destroyed
    /\ img' = ngOnDestroy(img)
    /\ UNCHANGED besideImage

ImageNext ==
    \/ SelectFile
    \/ WriteValue
    \/ DestroyControl

ImageSpec == ImageInit /\ [][ImageNext]_vars

(***************************************************************************)
(* Saves one after the other: the profile component with a transport that  *)
(* reports the outcome of a request only, and with the fields of the last  *)
(* validation failure kept from one save to the next.                      *)
(***************************************************************************)
\* the fields of the form that the validation failure of a delivery names
FailedFields(kind, ev) ==
    LET effs == Effects(interceptorVersion, componentVersion, kind, ev)
        failures == {i \in 1..Len(effs) : effs[i].tag = "ValidationFailure"
                                           /\ ~effs[i].ebody.isNull
                                           /\ effs[i].ebody.hasErrors}
        named == UNION {{effs[i].ebody.errors[j].field :
                            j \in 1..Len(effs[i].ebody.errors)} : i \in failures}
    IN named \cap Fields

ResolveRequest ==
    /\ \E s \in Slots :
        /\ req[s].phase = "inflight"
        /\ \E ev \in TerminalEvents :
              /\ Handle(s, ev, TRUE)
              /\ lastSaveFailedOn' = IF req[s].kind = "save"
                                        THEN [last |-> FailedFields(req[s].kind, ev),
                                              before |-> lastSaveFailedOn.last]
                                        ELSE lastSaveFailedOn
    /\ UNCHANGED <<svc, img, view, calledWhileDisabled, server, stream>>

SequenceNext ==
    \/ ngOnInit
    \/ SaveClick
    \/ ResetClick
    \/ Edit
    \/ ResolveRequest

SequenceSpec == Init /\ [][SequenceNext]_vars

(***************************************************************************)
(* Requests that overlap: saveUserData called whatever the Save button     *)
(* shows, up to two requests in flight at a time, their events delivered   *)
(* in any order.                                                           *)
(***************************************************************************)
\* saveUserData, called by a caller that does not look at the button
SaveCall ==
    /\ initialized
    /\ Cardinality({s \in Slots : req[s].phase = "inflight"}) < 2
    /\ isSaveRequestInProgress' = TRUE
    /\ req' = [s \in Slots |-> IF s = NextSlot THEN IssuedSlot("save") ELSE Forget(req[s])]
    /\ UNCHANGED <<interceptorVersion, componentVersion, initialized, userData, formValue,
                   controlErrors, isLoadRequestInProgress, hasLoadingError, uploadProgress>>
    /\ UNCHANGED aside

\* the progress events a request of this specification receives
MaxProgress == 1

\* the transport reports how much of the request body of a save is sent:
\* nothing at first, one byte more with each report
ReportProgress ==
    /\ \E s \in Slots :
        /\ req[s].phase = "inflight"
        /\ req[s].kind = "save"
        /\ req[s].nevents < MaxProgress
        /\ req[s].from <= MaxLoaded
        /\ Handle(s, UploadEvent(req[s].from, MaxLoaded), FALSE)
    /\ UNCHANGED aside

\* a terminal event of each class: two records, a malformed body, no
\* network, a validation failure, a server error
OverlapTerminals ==
    {ResponseEvent(StatusOk, OkBody(UserAnn)), ResponseEvent(StatusOk, OkBody(UserBob)),
     ResponseEvent(StatusOk, FooBody), HttpError(0, FALSE, CountersBody(0, 0)),
     HttpError(StatusBadRequest, TRUE, ValidationBody(<<ErrDupName>>)),
     HttpError(500, TRUE, NullErrorBody)}

\* the terminal event of one of the requests in flight
ResolveOne ==
    /\ \E s \in Slots :
        /\ req[s].phase = "inflight"
        /\ \E ev \in OverlapTerminals : Handle(s, ev, TRUE)
    /\ UNCHANGED aside

OverlapNext ==
    \/ ngOnInit
    \/ SaveCall
    \/ ReportProgress
    \/ ResolveOne

OverlapSpec == Init /\ [][OverlapNext]_vars

(***************************************************************************)
(* A transport that delivers the terminal event of every exchange it does  *)
(* not drop: the exchange of a request in flight may be cancelled from     *)
(* outside, and then no event of it is delivered any more.  The chain of   *)
(* the request stays subscribed: nothing in the component unsubscribes.    *)
(***************************************************************************)
CancelExchange ==
    /\ \E s \in Slots :
        /\ req[s].phase = "inflight"
        /\ req' = [req EXCEPT ![s].phase = "cancelled"]
    /\ UNCHANGED <<interceptorVersion, componentVersion, initialized, userData, formValue,
                   controlErrors, isLoadRequestInProgress, hasLoadingError,
                   isSaveRequestInProgress, uploadProgress>>
    /\ UNCHANGED aside

LiveNext ==
    \/ ngOnInit
    \/ SaveClick
    \/ ResetClick
    \/ Edit
    \/ ReportProgress
    \/ ResolveOne
    \/ CancelExchange

\* HttpClient ends every exchange that is not cancelled with a response or
\* an error
LiveSpec == Init /\ [][LiveNext]_vars /\ WF_vars(ResolveOne)

(***************************************************************************)
(* The component with saveUserData called whether the Save button is       *)
(* enabled or not, and a user who types into the three text fields also    *)
(* while the record is loading.                                            *)
(***************************************************************************)
\* what the user types into a text field
TypedValues(f) ==
    CASE f = "name" -> {"zed"}
      [] f = "email" -> {"a@b.c"}
      [] f = "address" -> {"home"}
      [] f = "avatar" -> {}

Type ==
    /\ initialized
    /\ \E f \in Fields : \E v \in TypedValues(f) :
          /\ formValue[f] # v
          /\ formValue' = [formValue EXCEPT ![f] = v]
          /\ controlErrors' = [controlErrors EXCEPT ![f] = ValidatorErrors(f, v)]
    /\ req' = [s \in Slots |-> Forget(req[s])]
    /\ UNCHANGED <<interceptorVersion, componentVersion, initialized, userData,
                   isLoadRequestInProgress, hasLoadingError, isSaveRequestInProgress,
                   uploadProgress>>
    /\ UNCHANGED aside

\* saveUserData, called from anywhere (at most two requests in flight):
\* the flag is set and the request subscribed; whether the Save button was
\* disabled at the call is kept
CallSaveUserData ==
    /\ initialized
    /\ Cardinality({s \in Slots : req[s].phase = "inflight"}) < 2
    /\ isSaveRequestInProgress' = TRUE
    /\ req' = [s \in Slots |-> IF s = NextSlot THEN IssuedSlot("save") ELSE Forget(req[s])]
    /\ calledWhileDisabled' = (calledWhileDisabled \/ isSaveButtonDisabled)
    /\ UNCHANGED <<interceptorVersion, componentVersion, initialized, userData, formValue,
                   controlErrors, isLoadRequestInProgress, hasLoadingError, uploadProgress>>
    /\ UNCHANGED <<svc, lastSaveFailedOn, img, view, server, stream>>

GateNext ==
    \/ ngOnInit
    \/ Type
    \/ CallSaveUserData
    \/ ReportProgress
    \/ ResolveOne

GateSpec == Init /\ [][GateNext]_vars

(***************************************************************************)
(* The backend on its own: GET and PUT requests in any order.              *)
(***************************************************************************)
ServerInit ==
    /\ interceptorVersion = 1
    /\ componentVersion = 2
    /\ initialized = FALSE
    /\ userData = NullData
    /\ formValue = InitialValue
    /\ controlErrors = InitialErrors
    /\ isLoadRequestInProgress = FALSE
    /\ hasLoadingError = FALSE
    /\ isSaveRequestInProgress = FALSE
    /\ uploadProgress = 0
    /\ req = [s \in Slots |-> FreeSlot]
    /\ svc = NoService
    /\ lastSaveFailedOn = NoFailedSave
    /\ img = NewImageControl(2)
    /\ view = NoView
    /\ calledWhileDisabled = FALSE
    /\ stream = NoStream
    /\ \E variant \in {1, 2} : \E withAvatar \in BOOLEAN :
          server = Server(variant, InitialUsers(withAvatar), "none", "", NoReply)

GetUser ==
    /\ \E id \in RequestedIds :
          server' = [server EXCEPT !.method = "GET", !.id = id,
                                   !.reply = getUser(server.variant, server.users, id)]
    /\ UNCHANGED <<componentVars, svc, lastSaveFailedOn, img, view, calledWhileDisabled, stream>>

\* the older server takes no upload
PutUser ==
    /\ \E id \in RequestedIds : \E body \in RequestBodies :
       \E file \in (IF server.variant = 1 THEN {NoFile} ELSE UploadedFiles) :
          server' = [server EXCEPT
                        !.method = "PUT", !.id = id,
                        !.users = putUsers(server.variant, server.users, id, body, file),
                        !.reply = putUser(server.variant, server.users, id, body, file)]
    /\ UNCHANGED <<componentVars, svc, lastSaveFailedOn, img, view, calledWhileDisabled, stream>>

ServerNext ==
    \/ GetUser
    \/ PutUser

ServerSpec == ServerInit /\ [][ServerNext]_vars

(***************************************************************************)
(* The error element on its own: any errors object and any custom          *)
(* messages are bound to it, and it renders.                               *)
(***************************************************************************)
MessageInit ==
    /\ interceptorVersion = 1
    /\ componentVersion = 2
    /\ initialized = FALSE
    /\ userData = NullData
    /\ formValue = InitialValue
    /\ controlErrors = InitialErrors
    /\ isLoadRequestInProgress = FALSE
    /\ hasLoadingError = FALSE
    /\ isSaveRequestInProgress = FALSE
    /\ uploadProgress = 0
    /\ req = [s \in Slots |-> FreeSlot]
    /\ svc = NoService
    /\ lastSaveFailedOn = NoFailedSave
    /\ img = NewImageControl(2)
    /\ calledWhileDisabled = FALSE
    /\ server = NoServer
    /\ stream = NoStream
    /\ \E variant \in {1, 2} : \E custom \in CustomMessages :
       \E errors \in ErrorsObjects \cup {NullErrors} :
          view = ErrorView(variant, custom, errors, FALSE, "", <<>>)

\* ngOnChanges -> updateErrorMessage (the pipe: transform)
UpdateErrorMessage ==
    /\ view' = [view EXCEPT
                   !.rendered = TRUE,
                   !.text = renderErrors(view.variant, view.custom, view.errors),
                   !.parts = IF view.errors.isNull THEN <<>>
                             ELSE messagesOf(view.variant, view.custom, view.errors)]
    /\ UNCHANGED <<componentVars, svc, lastSaveFailedOn, img, calledWhileDisabled, server, stream>>

MessageNext == UpdateErrorMessage

MessageSpec == MessageInit /\ [][MessageNext]_vars

(***************************************************************************)
(* tapError on its own: a source that sends values and then fails or       *)
(* completes, piped through either variant of the operator.                *)
(***************************************************************************)
StreamInit ==
    /\ interceptorVersion = 1
    /\ componentVersion = 2
    /\ initialized = FALSE
    /\ userData = NullData
    /\ formValue = InitialValue
    /\ controlErrors = InitialErrors
    /\ isLoadRequestInProgress = FALSE
    /\ hasLoadingError = FALSE
    /\ isSaveRequestInProgress = FALSE
    /\ uploadProgress = 0
    /\ req = [s \in Slots |-> FreeSlot]
    /\ svc = NoService
    /\ lastSaveFailedOn = NoFailedSave
    /\ img = NewImageControl(2)
    /\ view = NoView
    /\ calledWhileDisabled = FALSE
    /\ server = NoServer
    /\ \E variant \in {1, 2} : stream = Stream(variant, <<>>, <<>>, <<>>)

besideStream == <<componentVars, svc, lastSaveFailedOn, img, view, calledWhileDisabled, server>>

\* a value passes catchError unchanged
SourceNext ==
    /\ ~SourceStopped(stream)
    /\ Emitted(stream) < MaxEmitted
    /\ \E v \in StreamValues :
          stream' = [stream EXCEPT
                        !.sent = Append(@, NextNotification(v)),
                        !.out = Append(@, NextNotification(v))]
    /\ UNCHANGED besideStream

\* an error runs the selector
SourceError ==
    /\ ~SourceStopped(stream)
    /\ \E e \in ThrownErrors : \E r \in {tapError(stream.variant, e)} :
          stream' = [stream EXCEPT
                        !.sent = Append(@, ErrorNotification(e)),
                        !.calls = @ \o r.calls,
                        !.out = @ \o r.out]
    /\ UNCHANGED besideStream

\* the completion passes catchError unchanged
SourceComplete ==
    /\ ~SourceStopped(stream)
    /\ stream' = [stream EXCEPT
                     !.sent = Append(@, CompleteNotification),
                     !.out = Append(@, CompleteNotification)]
    /\ UNCHANGED besideStream

StreamNext ==
    \/ SourceNext
    \/ SourceError
    \/ SourceComplete

StreamSpec == StreamInit /\ [][StreamNext]_vars

(***************************************************************************)
(* Reading a request's log.                                                *)
(***************************************************************************)
\* the positions of the log whose tag is in tags
Positions(log, tags) == {i \in 1..Len(log) : log[i].tag \in tags}

TerminalPositions(log) == Positions(log, TerminalTags)

Done(s) == req[s].phase = "done"
InFlight(s) == req[s].phase = "inflight"

\* the success envelope of the wire contract: {status: "ok", data: <defined>}
EnvelopeShape(body) ==
    ~body.isNull /\ body.isPlain /\ body.status = "ok" /\ body.hasData

\* the raw terminal event is a response whose body carries the envelope
RawIsEnvelope(s) == req[s].raw.type = "Response" /\ EnvelopeShape(req[s].raw.body)
RawIsError(s) == req[s].raw.type = "Error"
RawIs200(s) == req[s].raw.type = "Response" /\ req[s].raw.status = StatusOk

TypeOK ==
    /\ interceptorVersion \in {1, 2}
    /\ componentVersion \in {1, 2}
    /\ initialized \in BOOLEAN
    /\ userData \in DataValues
    /\ DOMAIN formValue = Fields
    /\ DOMAIN controlErrors = Fields
    /\ isLoadRequestInProgress \in BOOLEAN
    /\ hasLoadingError \in BOOLEAN
    /\ isSaveRequestInProgress \in BOOLEAN
    /\ uploadProgress \in 0..100
    /\ \A s \in Slots : /\ req[s].phase \in {"free", "inflight", "done", "cancelled"}
                        /\ req[s].kind \in {"none", "load", "save"}
                        /\ req[s].nevents \in 0..MaxEvents
                        /\ req[s].from \in 0..(MaxLoaded + 1)
                        /\ req[s].totals \subseteq UploadTotals
    /\ svc.op \in {"none", "updateForm", "restoreForm", "setFormErrors",
                   "isFormPristine", "input",
                  "isSaveDisabled", "isResetDisabled"}
    /\ svc.inProgress \in BOOLEAN
    /\ DOMAIN svc.form.value \subseteq FormKeys
    /\ DOMAIN svc.form.errors = DOMAIN svc.form.value

(***************************************************************************)
(* C1.  As stated: whatever terminal transport event arrives (a response   *)
(* of any 2xx status and any body shape, a 400 failure or any other        *)
(* failure), a request produces exactly one terminal outcome.              *)
(***************************************************************************)
C1_AsStated ==
    \A s \in Slots : Done(s) => Cardinality(TerminalPositions(req[s].log)) = 1


(***************************************************************************)
(* C1, amended.  A request whose terminal transport event is a response    *)
(* of status 200 with any body, a response of any 2xx status whose body    *)
(* carries the success envelope, a 400 failure or any other failure        *)
(* produces exactly one terminal outcome; while the request is in flight   *)
(* it has produced none.                                                   *)
(***************************************************************************)
C1_ExactlyOneTerminal ==
    \A s \in Slots :
        /\ InFlight(s) => TerminalPositions(req[s].log) = {}
        /\ Done(s) /\ (RawIsError(s) \/ RawIs200(s) \/ RawIsEnvelope(s))
              => Cardinality(TerminalPositions(req[s].log)) = 1

\* a save answered 200 with a body that is not the envelope has resolved
C1_Witness ==
    \E s \in Slots :
        /\ Done(s) /\ req[s].kind = "save"
        /\ RawIs200(s) /\ ~RawIsEnvelope(s)
        /\ Cardinality(TerminalPositions(req[s].log)) = 1

(***************************************************************************)
(* C2.  In the event stream of one request every Progress outcome comes    *)
(* before the terminal outcome, there is at most one terminal outcome,     *)
(* and no Progress, Success, ValidationFailure or TransportFailure comes   *)
(* after it.                                                               *)
(***************************************************************************)
C2_NothingAfterTerminal ==
    \A s \in Slots :
        \A i \in TerminalPositions(req[s].log) :
            \A j \in Positions(req[s].log, TerminalTags \cup {"Progress"}) :
                j # i => j < i /\ req[s].log[j].tag = "Progress"

\* a resolved save that reported progress before its terminal outcome
C2_Witness ==
    \E s \in Slots :
        /\ Done(s)
        /\ Positions(req[s].log, {"Progress"}) # {}
        /\ TerminalPositions(req[s].log) # {}

(***************************************************************************)
(* C3.  When a request resolves, whatever the outcome, the finalize        *)
(* callback has run exactly once for it, and not before: it leaves the     *)
(* in-progress flag of the request's kind false and, for a save, the       *)
(* upload progress 0.                                                      *)
(***************************************************************************)
ResetCount(s) == Cardinality(Positions(req[s].log, {"Reset"}))

C3_ResetStep ==
    \A s \in Slots :
        InFlight(s) /\ req'[s].phase = "done" =>
            /\ req'[s].kind = "load" => ~isLoadRequestInProgress'
            /\ req'[s].kind = "save" => ~isSaveRequestInProgress' /\ uploadProgress' = 0

C3_ResetOnce ==
    /\ [](\A s \in Slots : /\ InFlight(s) => ResetCount(s) = 0
                           /\ Done(s) => ResetCount(s) = 1)
    /\ [][C3_ResetStep]_vars

\* a save that had reported progress ended in a failure and was reset
C3_Witness ==
    \E s \in Slots :
        /\ Done(s) /\ req[s].kind = "save"
        /\ \E i \in Positions(req[s].log, {"Progress"}) : req[s].log[i].n > 0
        /\ Positions(req[s].log, {"TransportFailure"}) # {}
        /\ ResetCount(s) = 1
        /\ ~isSaveRequestInProgress /\ uploadProgress = 0

(***************************************************************************)
(* C4.  The reset never comes before the terminal outcome of the request:  *)
(* when the success, the validation or the failure callback starts, the    *)
(* in-progress flag of the request's kind is still true, and every reset   *)
(* of the request comes after it.                                          *)
(***************************************************************************)
C4_ResetAfterTerminal ==
    \A s \in Slots :
        \A i \in TerminalPositions(req[s].log) :
            /\ req[s].log[i].inProgress
            /\ \A j \in Positions(req[s].log, {"Reset"}) : i < j

\* a save has resolved with a validation failure, and was reset after it
C4_Witness ==
    \E s \in Slots :
        /\ Done(s) /\ req[s].kind = "save"
        /\ \E i \in Positions(req[s].log, {"ValidationFailure"}) :
               /\ req[s].log[i].inProgress
               /\ \E j \in Positions(req[s].log, {"Reset"}) : i < j
        /\ ~isSaveRequestInProgress

(***************************************************************************)
(* C5.  A save that fails with status 400 and a body holding an errors     *)
(* array produces exactly one ValidationFailure, which carries the         *)
(* entries of the array in their order; the error goes no further than     *)
(* the validation stage (no TransportFailure), and neither the             *)
(* interceptor nor the pipeline opens a notification for the request.      *)
(***************************************************************************)
RawIs400(s) == RawIsError(s) /\ req[s].raw.status = StatusBadRequest
RawHasEnvelope(s) == ~req[s].raw.ebody.isNull /\ req[s].raw.ebody.hasErrors

C5_ValidationAbsorbed ==
    \A s \in Slots :
        Done(s) /\ req[s].kind = "save" /\ RawIs400(s) /\ RawHasEnvelope(s) =>
            /\ Cardinality(Positions(req[s].log, {"ValidationFailure"})) = 1
            /\ \A i \in Positions(req[s].log, {"ValidationFailure"}) :
                  req[s].log[i].errs = req[s].raw.ebody.errors
            /\ Positions(req[s].log, {"TransportFailure", "Success", "Notify"}) = {}

\* a save was answered 400 with two entries, and the name control shows
\* the server's error
C5_Witness ==
    \E s \in Slots :
        /\ Done(s) /\ req[s].kind = "save" /\ RawIs400(s)
        /\ req[s].raw.ebody.errors = <<ErrEmail, ErrDupName>>
        /\ Positions(req[s].log, {"ValidationFailure"}) # {}
        /\ controlErrors["name"] = {[code |-> "duplicate_name", message |-> ErrDupName.message]}

(***************************************************************************)
(* C6.  As stated: a save that fails with status 400 and a body without    *)
(* an errors array is a TransportFailure of kind other, and the            *)
(* validation callback is not invoked for it.                              *)
(***************************************************************************)
C6_AsStated ==
    \A s \in Slots :
        Done(s) /\ req[s].kind = "save" /\ RawIs400(s) /\ ~RawHasEnvelope(s) =>
            /\ Positions(req[s].log, {"ValidationFailure"}) = {}
            /\ \E i \in Positions(req[s].log, {"TransportFailure"}) :
                  req[s].log[i].kind = "other"

(***************************************************************************)
(* C6, amended.  The validation stage looks at the status only: a save     *)
(* that fails with status 400 and a body without an errors array (or no    *)
(* body) invokes the validation callback exactly once, with no entries,    *)
(* and produces no TransportFailure and no notification.                   *)
(***************************************************************************)
C6_Every400IsValidation ==
    \A s \in Slots :
        Done(s) /\ req[s].kind = "save" /\ RawIs400(s) /\ ~RawHasEnvelope(s) =>
            /\ Cardinality(Positions(req[s].log, {"ValidationFailure"})) = 1
            /\ \A i \in Positions(req[s].log, {"ValidationFailure"}) :
                  req[s].log[i].errs = <<>>
            /\ Positions(req[s].log, {"TransportFailure", "Success", "Notify"}) = {}

\* a save was answered 400 with an empty body and the validation callback ran
C6_Witness ==
    \E s \in Slots :
        /\ Done(s) /\ req[s].kind = "save" /\ RawIs400(s)
        /\ req[s].raw.ebody.isNull
        /\ Positions(req[s].log, {"ValidationFailure"}) # {}

(***************************************************************************)
(* C7.  As stated: every response of a 2xx status whose body is not a      *)
(* plain object with status "ok" and a data field ends as a malformed-     *)
(* response failure, with one notification of the interceptor, and never   *)
(* as a success nor without any outcome.                                   *)
(***************************************************************************)
RawIsMalformed(s) ==
    req[s].raw.type = "Response" /\ ~EnvelopeShape(req[s].raw.body)

MalformedHandled(s) ==
    /\ \E i \in Positions(req[s].log, {"TransportFailure"}) :
          req[s].log[i].kind = "malformed-response"
    /\ Positions(req[s].log, {"Success"}) = {}
    /\ Cardinality({i \in Positions(req[s].log, {"Notify"}) :
                       req[s].log[i].src = "interceptor"}) = 1
    /\ \A i \in Positions(req[s].log, {"Notify"}) :
          req[s].log[i].src = "interceptor" =>
              /\ req[s].log[i].msg = MsgInternalError
              /\ \A j \in Positions(req[s].log, {"TransportFailure"}) : i < j

C7_AsStated ==
    \A s \in Slots : Done(s) /\ RawIsMalformed(s) => MalformedHandled(s)

(***************************************************************************)
(* C7, amended.  Every response of status 200 whose body is not a plain    *)
(* object with status "ok" and a data field ends as a malformed-response   *)
(* failure: the interceptor opens one notification with the generic        *)
(* message and throws, the failure reaches the pipeline, and the           *)
(* response never counts as a success.                                     *)
(***************************************************************************)
C7_Malformed200 ==
    \A s \in Slots : Done(s) /\ RawIs200(s) /\ RawIsMalformed(s) => MalformedHandled(s)

\* a load answered 200 with {foo: "bar"} has set the loading error flag
C7_Witness ==
    \E s \in Slots :
        /\ Done(s) /\ req[s].kind = "load"
        /\ RawIs200(s) /\ req[s].raw.body = FooBody
        /\ MalformedHandled(s)
        /\ hasLoadingError

(***************************************************************************)
(* C8.  The interceptor replaces a raw error by the network-unreachable    *)
(* failure, marked as already notified, if and only if the raw error has   *)
(* no headers, no status and no loaded/total byte counters (ok is false    *)
(* for every HttpErrorResponse).                                           *)
(***************************************************************************)
RawHasNoCounters(s) ==
    req[s].raw.ebody.isNull \/ (req[s].raw.ebody.loaded = 0 /\ req[s].raw.ebody.total = 0)

C8_AsStated ==
    \A s \in Slots :
        Done(s) /\ RawIsError(s) =>
            ((\E i \in Positions(req[s].log, {"TransportFailure"}) :
                  req[s].log[i].kind = "network-unreachable" /\ req[s].log[i].marked)
             <=> (~req[s].raw.hasHeaders /\ req[s].raw.status = 0 /\ RawHasNoCounters(s)))

(***************************************************************************)
(* C9.  When a request ends in a failure the interceptor marked as         *)
(* already notified, the pipeline opens no notification of its own: the    *)
(* request has one notification in all.                                    *)
(***************************************************************************)
C9_AsStated ==
    \A s \in Slots :
        Done(s) /\ (\E i \in Positions(req[s].log, {"TransportFailure"}) : req[s].log[i].marked) =>
            /\ \A i \in Positions(req[s].log, {"Notify"}) : req[s].log[i].src = "interceptor"
            /\ Cardinality(Positions(req[s].log, {"Notify"})) = 1

(***************************************************************************)
(* C10.  A save answered 200 with a malformed body ends as a malformed-    *)
(* response failure that is marked as already notified, and the request    *)
(* has exactly one notification in all.                                    *)
(***************************************************************************)
C10_AsStated ==
    \A s \in Slots :
        Done(s) /\ req[s].kind = "save" /\ RawIs200(s) /\ RawIsMalformed(s) =>
            /\ \E i \in Positions(req[s].log, {"TransportFailure"}) :
                  req[s].log[i].kind = "malformed-response" /\ req[s].log[i].marked
            /\ Cardinality(Positions(req[s].log, {"Notify"})) = 1

(***************************************************************************)
(* Reading the last delivery to a request.                                 *)
(***************************************************************************)
Delivered(s) == req[s].last.any

\* the positions of the entries the last delivery added to the log
LastEntries(s, tags) == {i \in Positions(req[s].log, tags) : i > req[s].last.mark}

\* the notifications of the interceptor for the request
InterceptorNotes(s) ==
    {i \in Positions(req[s].log, {"Notify"}) : req[s].log[i].src = "interceptor"}

(***************************************************************************)
(* C11.  Every raw error that the interceptor does not classify as         *)
(* network-unreachable (a status-0 error with a null body, a 400, a 404,   *)
(* a 5xx) leaves the interceptor as the very error value it entered with.  *)
(***************************************************************************)
C11_AsStated ==
    \A s \in Slots :
        Done(s) /\ RawIsError(s) /\ req[s].last.out.class # "HttpNoNetworkConnectionError" =>
            req[s].last.out = req[s].raw

(***************************************************************************)
(* C12.  As stated: the interceptor opens at most one notification per     *)
(* request, and only when it synthesizes the malformed-response or the     *)
(* network-unreachable failure; for an error it passes on (400, 404, 5xx,  *)
(* any other) it opens none.                                               *)
(***************************************************************************)
Synthesized(s) ==
    req[s].last.out.class \in {"HttpResponseBodyFormatError", "HttpNoNetworkConnectionError"}

C12_AsStated ==
    \A s \in Slots :
        Done(s) =>
            /\ Cardinality(InterceptorNotes(s)) <= 1
            /\ ~Synthesized(s) => InterceptorNotes(s) = {}

(***************************************************************************)
(* C12, amended.  The interceptor opens at most one notification per       *)
(* request: exactly one, with the generic message, for a malformed 200     *)
(* response; exactly one, with the no-connection message, for the          *)
(* network-unreachable failure; none for a 400, for an error raised while  *)
(* the raw error is inspected, and for a response it lets through.  For    *)
(* every other error it passes on (404, 5xx) the interceptor of lines      *)
(* 61-111 opens exactly one notification with the generic message, and     *)
(* the interceptor of lines 211-262 opens none.                            *)
(***************************************************************************)
ExpectedInterceptorMessages(s) ==
    LET out == req[s].last.out IN
    CASE out.class = "HttpResponseBodyFormatError" -> {MsgInternalError}
      [] out.class = "HttpNoNetworkConnectionError" -> {MsgNoConnection}
      [] out.class = "HttpErrorResponse" /\ out.status # StatusBadRequest
            /\ interceptorVersion = 1 -> {MsgInternalError}
      [] OTHER -> {}

C12_InterceptorNotifications ==
    \A s \in Slots :
        Done(s) =>
            /\ Cardinality(InterceptorNotes(s)) <= 1
            /\ {req[s].log[i].msg : i \in InterceptorNotes(s)} = ExpectedInterceptorMessages(s)

\* a save answered 500 went through the interceptor of lines 61-111, which
\* passed the error on and opened the generic notification
C12_Witness ==
    \E s \in Slots :
        /\ Done(s) /\ req[s].kind = "save" /\ interceptorVersion = 1
        /\ RawIsError(s) /\ req[s].raw.status = 500
        /\ req[s].last.out = req[s].raw
        /\ \E i \in InterceptorNotes(s) : req[s].log[i].msg = MsgInternalError

(***************************************************************************)
(* C13.  A request that ends in a failure of kind other (a 5xx, a 404) has *)
(* exactly one notification in all, with a generic message, counting the   *)
(* interceptor and the pipeline together, and its in-progress flag is      *)
(* false afterwards.                                                       *)
(***************************************************************************)
C13_AsStated ==
    \A s \in Slots :
        Done(s) /\ (\E i \in Positions(req[s].log, {"TransportFailure"}) :
                        req[s].log[i].kind = "other") =>
            /\ Cardinality(Positions(req[s].log, {"Notify"})) = 1
            /\ \A i \in Positions(req[s].log, {"Notify"}) :
                  req[s].log[i].msg \in {MsgInternalError, MsgUnexpected}
            /\ ResetCount(s) = 1

(***************************************************************************)
(* C14.  In the chains built with tapResponseData: for every event that    *)
(* reaches the chain carrying the success envelope {status: "ok", data: X} *)
(* (the body alone for a load, the HttpResponse that ends the event        *)
(* stream of a save) the response data callback runs exactly once, with X, *)
(* and the event has no progress, validation or failure outcome; for       *)
(* every other event (sent, header and progress events, errors) the        *)
(* callback does not run.                                                  *)
(***************************************************************************)
CarriesEnvelope(ev) == ev.type = "Response" /\ EnvelopeShape(ev.body)

C14_SuccessForEnvelope ==
    \A s \in Slots :
        Delivered(s) /\ componentVersion = 2 =>
            IF CarriesEnvelope(req[s].last.out)
               THEN /\ Cardinality(LastEntries(s, {"Success"})) = 1
                    /\ \A i \in LastEntries(s, {"Success"}) :
                          req[s].log[i].data = req[s].last.out.body.data
                    /\ LastEntries(s, {"Progress", "ValidationFailure", "TransportFailure"}) = {}
               ELSE LastEntries(s, {"Success"}) = {}

\* a save was answered 201 with the envelope of bob's record, and the
\* callback stored the record
C14_Witness ==
    \E s \in Slots :
        /\ Done(s) /\ req[s].kind = "save" /\ componentVersion = 2
        /\ req[s].raw = ResponseEvent(201, OkBody(UserAnn))
        /\ \E i \in LastEntries(s, {"Success"}) : req[s].log[i].data = UserAnn
        /\ userData = UserAnn

(***************************************************************************)
(* C15.  As stated: every progress event, of the upload or of the          *)
(* download, whose total is present and greater than 0 emits exactly one   *)
(* Progress with 100 * loaded / total rounded to the nearest integer;      *)
(* every event whose total is absent or zero, and every other event,       *)
(* emits none.                                                             *)
(***************************************************************************)
\* n is 100 * loaded / total rounded as Math.round does (a half goes up)
IsRoundedPercent(n, loaded, total) ==
    /\ 2 * (n * total - 100 * loaded) <= total
    /\ 2 * (100 * loaded - n * total) < total

ProgressEmitted(s) ==
    /\ Cardinality(LastEntries(s, {"Progress"})) = 1
    /\ \A i \in LastEntries(s, {"Progress"}) :
          IsRoundedPercent(req[s].log[i].n, req[s].last.ev.loaded, req[s].last.ev.total)

C15_AsStated ==
    \A s \in Slots :
        Delivered(s) /\ req[s].kind = "save" =>
            IF req[s].last.ev.type \in {"UploadProgress", "DownloadProgress"}
                  /\ req[s].last.ev.total > 0
               THEN ProgressEmitted(s)
               ELSE LastEntries(s, {"Progress"}) = {}

(***************************************************************************)
(* C15, amended.  Every upload progress event whose total is present and   *)
(* greater than 0 emits exactly one Progress with 100 * loaded / total     *)
(* rounded to the nearest integer (a half is rounded up); an upload        *)
(* progress event whose total is absent or zero, a download progress       *)
(* event and every other event emit none.                                  *)
(***************************************************************************)
C15_UploadProgress ==
    \A s \in Slots :
        Delivered(s) =>
            IF req[s].last.ev.type = "UploadProgress" /\ req[s].last.ev.total > 0
               THEN ProgressEmitted(s)
               ELSE LastEntries(s, {"Progress"}) = {}

\* an upload progress event whose percentage is not a whole number was
\* reported, and the component shows the rounded value
C15_Witness ==
    \E s \in Slots :
        /\ InFlight(s) /\ Delivered(s)
        /\ req[s].last.ev.type = "UploadProgress" /\ req[s].last.ev.total > 0
        /\ (100 * req[s].last.ev.loaded) % req[s].last.ev.total # 0
        /\ \E i \in LastEntries(s, {"Progress"}) : uploadProgress = req[s].log[i].n

(***************************************************************************)
(* C16.  When the upload progress events of a request report growing       *)
(* byte counts against one total, the percentages emitted for the request  *)
(* are whole numbers between 0 and 100 that never decrease, and so are     *)
(* the values uploadProgress takes from one delivery to the next while     *)
(* the request is in flight.                                               *)
(***************************************************************************)
FixedTotal(s) == Cardinality(req[s].totals) <= 1

C16_ProgressStep ==
    \A s \in Slots :
        /\ InFlight(s) /\ req[s].kind = "save"
        /\ req'[s].phase = "inflight" /\ Cardinality(req'[s].totals) <= 1
        => /\ uploadProgress' \in 0..100
           /\ uploadProgress' >= uploadProgress

C16_MonotoneProgress ==
    /\ [](\A s \in Slots :
            FixedTotal(s) =>
                \A i \in Positions(req[s].log, {"Progress"}) :
                    /\ req[s].log[i].n \in 0..100
                    /\ \A j \in Positions(req[s].log, {"Progress"}) :
                          i < j => req[s].log[i].n <= req[s].log[j].n)
    /\ [][C16_ProgressStep]_vars

\* a save in flight has reported two percentages against one total, the
\* second larger than the first
C16_Witness ==
    \E s \in Slots :
        /\ InFlight(s) /\ req[s].kind = "save" /\ FixedTotal(s)
        /\ \E i, j \in Positions(req[s].log, {"Progress"}) :
              i < j /\ req[s].log[i].n < req[s].log[j].n
                    /\ uploadProgress = req[s].log[j].n

(***************************************************************************)
(* Reading a call of the FormHandlerService.                               *)
(***************************************************************************)
Called(op) == svc.op = op

FormKeySet(form) == DOMAIN form.value

\* the projection of a data object onto a key set: the keys it has
Projection(data, keys) ==
    [k \in {x \in keys : ~data.isNull /\ x \in DOMAIN data.obj} |-> data.obj[k]]

\* the form and the data agree on every key of the set
AgreeOn(form, data, keys) == \A k \in keys : form.value[k] = data.obj[k]

(***************************************************************************)
(* C17.  As stated: isFormPristine(form, lastSaved) is true if and only if *)
(* lastSaved is not null, the form has at least one field, and the         *)
(* projection of lastSaved onto the keys of the form equals the values of  *)
(* the form; so it is false for null, and false for a form without fields. *)
(***************************************************************************)
C17_AsStated ==
    Called("isFormPristine") =>
        (svc.out <=> /\ ~svc.data.isNull
                     /\ FormKeySet(svc.form) # {}
                     /\ Projection(svc.data, FormKeySet(svc.form)) = svc.form.value)

(***************************************************************************)
(* C17, amended.  isFormPristine(form, lastSaved) is true if and only if   *)
(* lastSaved is not null and the projection of lastSaved onto the keys of  *)
(* the form equals the values of the form.  It is false for null whatever  *)
(* the form holds, and a form without fields is pristine against every     *)
(* lastSaved that is not null.                                             *)
(***************************************************************************)
C17_PristineIff ==
    Called("isFormPristine") =>
        /\ svc.out <=> /\ ~svc.data.isNull
                        /\ Projection(svc.data, FormKeySet(svc.form)) = svc.form.value
        /\ svc.data.isNull => ~svc.out
        /\ FormKeySet(svc.form) = {} /\ ~svc.data.isNull => svc.out

\* a form without fields was compared with a record and found pristine
C17_Witness ==
    /\ Called("isFormPristine")
    /\ FormKeySet(svc.form) = {}
    /\ ~svc.data.isNull /\ DOMAIN svc.data.obj # {}
    /\ svc.out

(***************************************************************************)
(* C18.  As stated: the comparison looks at the fields the form and the    *)
(* record share; a field of the form that the record lacks is ignored,     *)
(* and so is a field of the record that the form lacks.                    *)
(***************************************************************************)
C18_AsStated ==
    Called("isFormPristine") /\ ~svc.data.isNull =>
        (svc.out <=> AgreeOn(svc.form, svc.data,
                             FormKeySet(svc.form) \cap DOMAIN svc.data.obj))

(***************************************************************************)
(* C18, amended.  The comparison looks at the fields of the form: a field  *)
(* of the record that the form lacks is ignored, and a field of the form   *)
(* that the record lacks makes the form non-pristine whatever it holds.    *)
(***************************************************************************)
C18_FormKeysDecide ==
    Called("isFormPristine") /\ ~svc.data.isNull =>
        (svc.out <=> /\ FormKeySet(svc.form) \subseteq DOMAIN svc.data.obj
                     /\ AgreeOn(svc.form, svc.data, FormKeySet(svc.form)))

\* a form with fields was found pristine against a record with an id, a
\* field the form does not have
C18_Witness ==
    /\ Called("isFormPristine")
    /\ FormKeySet(svc.form) # {}
    /\ ~svc.data.isNull /\ "id" \in DOMAIN svc.data.obj
    /\ svc.out

(***************************************************************************)
(* C19.  As stated: after updateForm(form, data) the values of the form    *)
(* equal the projection of data onto the keys of the form, and the form    *)
(* has the keys it had before the call.                                    *)
(***************************************************************************)
C19_AsStated ==
    Called("updateForm") =>
        /\ FormKeySet(svc.form) = FormKeySet(svc.before)
        /\ svc.form.value = Projection(svc.data, FormKeySet(svc.before))

(***************************************************************************)
(* C19, amended.  After updateForm(form, data) the form has the keys it    *)
(* had before the call (no key of data is added); a field whose key data   *)
(* has holds the value of data, and a field whose key data lacks, every    *)
(* field when data is null, holds null.  The values of the form equal the  *)
(* projection of data onto the keys of the form exactly when data has      *)
(* every key of the form.                                                  *)
(***************************************************************************)
C19_UpdateRoundTrip ==
    Called("updateForm") =>
        /\ FormKeySet(svc.form) = FormKeySet(svc.before)
        /\ \A k \in FormKeySet(svc.form) :
              svc.form.value[k] =
                  IF ~svc.data.isNull /\ k \in DOMAIN svc.data.obj
                     THEN svc.data.obj[k] ELSE NullValue
        /\ (svc.form.value = Projection(svc.data, FormKeySet(svc.before)))
              <=> (\A k \in FormKeySet(svc.form) :
                      ~svc.data.isNull /\ k \in DOMAIN svc.data.obj)

\* a form with a name and an avatar was updated from a record with an id
\* and a name: the name is taken, the avatar is null, the id is not added
C19_Witness ==
    /\ Called("updateForm")
    /\ FormKeySet(svc.before) = {"name", "avatar"}
    /\ ~svc.data.isNull /\ DOMAIN svc.data.obj = {"id", "name"}
    /\ svc.form.value["name"] = svc.data.obj["name"]
    /\ svc.form.value["avatar"] = NullValue
    /\ svc.before.value["avatar"] # NullValue

(***************************************************************************)
(* C20.  setFormErrors with no payload, or with a payload without an       *)
(* errors array, leaves no field of the form with an error; with an        *)
(* errors array it changes the errors of the fields the array names and    *)
(* of no other field.                                                      *)
(***************************************************************************)
MentionedFields(payload) == {payload.errors[i].field : i \in 1..Len(payload.errors)}

C20_AsStated ==
    Called("setFormErrors") =>
        IF svc.payload.isNull \/ ~svc.payload.hasErrors
           THEN \A k \in FormKeySet(svc.form) : svc.form.errors[k] = {}
           ELSE \A k \in FormKeySet(svc.form) \ MentionedFields(svc.payload) :
                    svc.form.errors[k] = svc.before.errors[k]

(***************************************************************************)
(* Reading the errors array of a payload.                                  *)
(***************************************************************************)
HasErrorsArray(payload) == ~payload.isNull /\ payload.hasErrors

\* the positions of the entries that name field k
EntriesFor(payload, k) == {i \in 1..Len(payload.errors) : payload.errors[i].field = k}

\* the last entry that names field k
LastEntryFor(payload, k) ==
    payload.errors[CHOOSE i \in EntriesFor(payload, k) :
                      \A j \in EntriesFor(payload, k) : j <= i]

Codes(errors) == {x.code : x \in errors}

(***************************************************************************)
(* C21.  As stated: when the errors array holds several entries for one    *)
(* field, the error map of the field afterwards contains the code of every *)
(* one of them.                                                            *)
(***************************************************************************)
C21_AsStated ==
    Called("setFormErrors") /\ HasErrorsArray(svc.payload) =>
        \A k \in FormKeySet(svc.form) : \A i \in EntriesFor(svc.payload, k) :
            svc.payload.errors[i].code \in Codes(svc.form.errors[k])

(***************************************************************************)
(* C21, amended.  When the errors array holds one or several entries for   *)
(* a field of the form, the error map of the field afterwards holds the    *)
(* code and the message of the last of them and nothing else: every entry  *)
(* replaces the whole error map of its field, whatever its code.           *)
(***************************************************************************)
C21_LastEntryWins ==
    Called("setFormErrors") /\ HasErrorsArray(svc.payload) =>
        \A k \in FormKeySet(svc.form) :
            EntriesFor(svc.payload, k) # {} =>
                LET e == LastEntryFor(svc.payload, k) IN
                svc.form.errors[k] = {[code |-> e.code, message |-> e.message]}

\* two entries with different codes named the name field: the field shows
\* the second code only
C21_Witness ==
    /\ Called("setFormErrors") /\ HasErrorsArray(svc.payload)
    /\ "name" \in FormKeySet(svc.form)
    /\ svc.payload.errors = <<ErrNameLength, ErrDupName>>
    /\ Codes(svc.form.errors["name"]) = {"duplicate_name"}

(***************************************************************************)
(* C22.  setFormErrors raises for no payload: not for null, not for a      *)
(* payload without an errors array, not for an array with entries that     *)
(* name a field the form does not have.  Such an entry is skipped: the     *)
(* form has the controls it had and no error under that name, and every    *)
(* entry of the array that names a field of the form is applied, also the  *)
(* entries that come after the skipped one.                                *)
(***************************************************************************)
C22_NeverRaises ==
    Called("setFormErrors") =>
        /\ ~svc.out
        /\ DOMAIN svc.form.errors = FormKeySet(svc.before)
        /\ FormKeySet(svc.form) = FormKeySet(svc.before)
        /\ HasErrorsArray(svc.payload) =>
              \A i \in 1..Len(svc.payload.errors) :
                 LET e == svc.payload.errors[i] IN
                 IF e.field \in FormKeySet(svc.before)
                    THEN \/ [code |-> e.code, message |-> e.message] \in svc.form.errors[e.field]
                         \/ \E j \in EntriesFor(svc.payload, e.field) : j > i
                    ELSE e.field \notin DOMAIN svc.form.errors

\* the array named the email field, which the form does not have, and then
\* the name field: nothing was raised and the name field has its error
C22_Witness ==
    /\ Called("setFormErrors") /\ HasErrorsArray(svc.payload)
    /\ svc.payload.errors = <<ErrEmail, ErrDupName>>
    /\ "name" \in FormKeySet(svc.form) /\ "email" \notin FormKeySet(svc.form)
    /\ ~svc.out
    /\ svc.before.errors["name"] # svc.form.errors["name"]
    /\ Codes(svc.form.errors["name"]) = {"duplicate_name"}

(***************************************************************************)
(* C23.  Scenario A: when a save is answered 400 with the errors array     *)
(* [{field: name, code: duplicate_name, message: M}], the text shown under *)
(* the name field afterwards is exactly M, and the errors of the email,    *)
(* address and avatar fields are what they were before the response.       *)
(***************************************************************************)
AnsweredDuplicateName(s) ==
    /\ InFlight(s) /\ req[s].kind = "save"
    /\ req'[s].phase = "done"
    /\ req'[s].raw.type = "Error" /\ req'[s].raw.class = "HttpErrorResponse"
    /\ req'[s].raw.status = StatusBadRequest
    /\ req'[s].raw.ebody = ValidationBody(<<ErrDupName>>)

C23_ScenarioAStep ==
    \A s \in Slots :
        AnsweredDuplicateName(s) =>
            /\ generateErrorMessage(controlErrors'["name"]) = ErrDupName.message
            /\ \A f \in Fields \ {"name"} : controlErrors'[f] = controlErrors[f]

C23_ScenarioA == [][C23_ScenarioAStep]_vars

\* the save was answered so while the email field showed the error of its
\* validator: the name field shows the server's message, the email field
\* its own
C23_Witness ==
    \E s \in Slots :
        /\ Done(s) /\ req[s].kind = "save" /\ RawIs400(s)
        /\ req[s].raw.ebody = ValidationBody(<<ErrDupName>>)
        /\ generateErrorMessage(controlErrors["name"]) = "There is already a user with this name."
        /\ generateErrorMessage(controlErrors["email"]) = "Please enter a valid email"

(***************************************************************************)
(* Reading a step that resolves a request.                                 *)
(***************************************************************************)
\* the step delivers its terminal event to the request in slot s
Resolves(s) == InFlight(s) /\ req'[s].phase = "done"

\* the log entries the step appends to the log of the request in slot s
NewEntries(s, tags) ==
    {i \in (Len(req[s].log) + 1)..Len(req'[s].log) : req'[s].log[i].tag \in tags}

\* the step resolves the save in slot s with Success(d)
SaveSucceedsWith(s, d) ==
    /\ Resolves(s) /\ req[s].kind = "save"
    /\ \E i \in NewEntries(s, {"Success"}) : req'[s].log[i].data = d

(***************************************************************************)
(* C24.  As stated (scenario E): of two saves issued one after the other,  *)
(* the first ends in a validation failure on field f and the second in     *)
(* Success(D); after the second the error map of f is empty and the        *)
(* record equals D.                                                        *)
(***************************************************************************)
C24_AsStatedStep ==
    \A s \in Slots : \A d \in DataValues :
        SaveSucceedsWith(s, d) =>
            \A f \in lastSaveFailedOn.last :
                /\ controlErrors'[f] = {}
                /\ userData' = d

C24_ScenarioEStep ==
    \A s \in Slots : \A d \in DataValues :
        SaveSucceedsWith(s, d) =>
            \A f \in lastSaveFailedOn.last :
                /\ userData' = d
                /\ IF d.isNull
                      THEN controlErrors'[f] = controlErrors[f]
                      ELSE /\ formValue'[f] = PickField(d, f)
                           /\ controlErrors'[f] = ValidatorErrors(f, PickField(d, f))
                           /\ ValidatorErrors(f, PickField(d, f)) = {} => controlErrors'[f] = {}

SuccessData(s) ==
    IF InFlight(s) /\ req'[s].phase # "free"
       THEN {req'[s].log[i].data : i \in NewEntries(s, {"Success"})}
       ELSE {}

C25_RecordStep ==
    /\ \A s \in Slots : \A d \in SuccessData(s) : userData' = d
    /\ (\A s \in Slots : SuccessData(s) = {}) => userData' = userData

C25_RecordOnlyBySuccess == [][C25_RecordStep]_vars

\* a save succeeded with the record of bob: the record is bob's, all of
\* it, and the form shows it
C25_Witness ==
    \E s \in Slots :
        /\ Done(s) /\ req[s].kind = "save"
        /\ \E i \in LastEntries(s, {"Success"}) : req[s].log[i].data = UserBob
        /\ userData = UserBob
        /\ \A f \in Fields : formValue[f] = PickField(UserBob, f)

(***************************************************************************)
(* C26.  When a second request is issued before the first resolves, each   *)
(* of the two is classified on its own, in every interleaving of their     *)
(* events: a step changes a request in flight only by delivering one of    *)
(* its own events, the callbacks run for that event are the ones the event *)
(* gets whatever the other request did, and no other request in flight     *)
(* changes in the step.  Each request is reset exactly once, by its own    *)
(* terminal event.                                                         *)
(***************************************************************************)
\* what a callback is called for: the outcome and what it carries
Classification(tag, kind, data, errs) ==
    [tag |-> tag, kind |-> kind, data |-> data, errs |-> errs]

\* the classification of an event by the code, the request taken alone
ClassifiedAlone(kind, ev) ==
    LET effs == Effects(interceptorVersion, componentVersion, kind, ev) IN
    [i \in 1..Len(effs) |->
        Classification(effs[i].tag, effs[i].kind, effs[i].data, effs[i].ebody.errors)]

\* the classification the step appended to the log of the request in s
ClassifiedInStep(s) ==
    [i \in 1..(Len(req'[s].log) - Len(req[s].log)) |->
        LET e == req'[s].log[Len(req[s].log) + i] IN
        Classification(e.tag, e.kind, e.data, e.errs)]

C26_IndependentStep ==
    \A s \in Slots :
        InFlight(s) /\ req'[s] # req[s] =>
            /\ req'[s].phase \in {"inflight", "done"}
            /\ req'[s].last.any
            /\ Len(req'[s].log) >= Len(req[s].log)
            /\ ClassifiedInStep(s) = ClassifiedAlone(req[s].kind, req'[s].last.ev)
            /\ \A t \in Slots \ {s} : InFlight(t) => req'[t] = req[t]

Cancelled(s) == req[s].phase = "cancelled"

C27_CancelledStuck ==
    \A s \in Slots :
        Cancelled(s) =>
            /\ TerminalPositions(req[s].log) = {}
            /\ ResetCount(s) = 0
            /\ req[s].kind = "load" => isLoadRequestInProgress
            /\ req[s].kind = "save" =>
                  isSaveRequestInProgress /\ isSaveButtonDisabled /\ isResetButtonDisabled

C27_CancelledStep == \A s \in Slots : Cancelled(s) => req'[s] = req[s]

\* the request in s is resolved and the flag of its kind is false
ResolvedAndReset(s) ==
    /\ Done(s)
    /\ req[s].kind = "load" => ~isLoadRequestInProgress
    /\ req[s].kind = "save" => ~isSaveRequestInProgress

\* C27: a request in flight is eventually resolved with the flag of its
\* kind false, unless its exchange is cancelled; a cancelled request gets no
\* terminal outcome, its flag stays true and Save and Reset stay disabled
C27_EventuallyReset ==
    /\ \A s \in Slots : InFlight(s) ~> (ResolvedAndReset(s) \/ Cancelled(s))
    /\ []C27_CancelledStuck
    /\ [][C27_CancelledStep]_vars

\* the exchange of a save was cancelled after a progress report, and the
\* user went on editing: the flag is set, the progress bar stands, the
\* buttons are disabled
C27_Witness ==
    \E s \in Slots :
        /\ Cancelled(s) /\ req[s].kind = "save" /\ req[s].nevents > 0
        /\ formValue["email"] = "bad"
        /\ isSaveRequestInProgress
        /\ isSaveButtonDisabled /\ isResetButtonDisabled

(***************************************************************************)
(* C28.  Whatever files are selected, values written and whenever the      *)
(* control is torn down, at most one preview handle that the control       *)
(* created is alive (created and not revoked).                             *)
(***************************************************************************)
\* the handles the control created and has not revoked
AliveHandles == (1..img.created) \ img.revoked

\* C28: at most one preview handle of the image control is alive
C28_AsStated == Cardinality(AliveHandles) <= 1

(***************************************************************************)
(* C29.  Every preview handle is released: a handle that is no longer the  *)
(* one shown (a selection or a written value took its place) is revoked,   *)
(* and after ngOnDestroy no handle is left unrevoked.                      *)
(***************************************************************************)
\* C29: an alive handle is the one held in imgSrc, and none is alive after
\* the teardown
C29_AsStated ==
    /\ \A k \in AliveHandles : img.imgSrc = BlobSrc(k)
    /\ img.destroyed => AliveHandles = {}

(***************************************************************************)
(* C30.  Scenario B: a load whose raw error has no headers, no status and  *)
(* no byte counters ends as a network-unreachable failure with exactly one *)
(* notification, the loading error flag set and the load's in-progress     *)
(* flag false.                                                             *)
(***************************************************************************)
RawIsScenarioB(s) ==
    /\ req[s].kind = "load"
    /\ RawIsError(s)
    /\ ~req[s].raw.hasHeaders
    /\ req[s].raw.status = 0
    /\ RawHasNoCounters(s)

\* C30: a resolved load of scenario B has a network-unreachable failure
\* and one notification in its log, hasLoadingError is set and
\* isLoadRequestInProgress is false
C30_AsStated ==
    \A s \in Slots :
        Done(s) /\ RawIsScenarioB(s) =>
            /\ \E i \in Positions(req[s].log, {"TransportFailure"}) :
                  req[s].log[i].kind = "network-unreachable"
            /\ Cardinality(Positions(req[s].log, {"Notify"})) = 1
            /\ hasLoadingError
            /\ ~isLoadRequestInProgress

\* the same for a raw error that carries a body (with no byte counters)
C30_WithBody ==
    \A s \in Slots :
        Done(s) /\ RawIsScenarioB(s) /\ ~req[s].raw.ebody.isNull =>
            /\ \E i \in Positions(req[s].log, {"TransportFailure"}) :
                  req[s].log[i].kind = "network-unreachable"
            /\ Cardinality(Positions(req[s].log, {"Notify"})) = 1
            /\ hasLoadingError
            /\ ~isLoadRequestInProgress

(***************************************************************************)
(* C31.  isSaveDisabled(form, lastSaved, inProgress) is true if and only   *)
(* if the form is not valid, or it is pristine against lastSaved, or       *)
(* inProgress is true, for every combination of the three; so Save is      *)
(* enabled exactly for a valid form that is not pristine while no save is  *)
(* in progress.                                                            *)
(***************************************************************************)
\* no control of the form carries an error
NoControlError(form) == \A k \in FormKeySet(form) : form.errors[k] = {}

\* the form holds the projection of a record onto its keys
HoldsProjection(form, data) ==
    ~data.isNull /\ Projection(data, FormKeySet(form)) = form.value

\* C31: the value isSaveDisabled returns is the disjunction of the three
\* conditions
C31_SaveDisabledIff ==
    Called("isSaveDisabled") =>
        /\ svc.out <=> \/ ~NoControlError(svc.form)
                        \/ HoldsProjection(svc.form, svc.data)
                        \/ svc.inProgress
        /\ ~svc.out <=> /\ NoControlError(svc.form)
                         /\ ~HoldsProjection(svc.form, svc.data)
                         /\ ~svc.inProgress

\* Save was found disabled for no other reason than an error on a control
\* of a form that differs from the record
C31_Witness ==
    /\ Called("isSaveDisabled")
    /\ svc.out
    /\ ~NoControlError(svc.form)
    /\ ~svc.data.isNull /\ ~HoldsProjection(svc.form, svc.data)
    /\ ~svc.inProgress

ByPrecedence(custom, code) ==
    CASE code \in DOMAIN custom -> custom[code]
      [] code \notin DOMAIN custom /\ code \in {"required", "email"} ->
            DefaultErrorMessages[code]
      [] OTHER -> "This field has an error"

NoErrorsBound == view.errors.isNull \/ view.errors.entries = <<>>

C33_AsStated ==
    view.rendered =>
        /\ NoErrorsBound => view.text = ""
        /\ Len(view.parts) = Len(view.errors.entries)
        /\ \A i \in 1..Len(view.parts) :
              view.parts[i] = ByPrecedence(view.custom, view.errors.entries[i].code)

(***************************************************************************)
(* C33, amended.  A non-empty string stored as the value of the error is   *)
(* the message, before any configured message.  For any other value the    *)
(* directive takes the custom message, else the default one, else the      *)
(* fallback; the pipe does so for the value true and shows the fallback    *)
(* for every other value.  Each of several errors is resolved so, the      *)
(* messages are joined by ". ", and no errors gives the empty string.      *)
(***************************************************************************)
ShownFor(variant, custom, entry) ==
    CASE entry.value.kind = "string" /\ entry.value.text # "" -> entry.value.text
      [] entry.value.kind = "true" -> ByPrecedence(custom, entry.code)
      [] OTHER -> IF variant = 2 THEN ByPrecedence(custom, entry.code)
                  ELSE "This field has an error"

\* C33: the value of the error first, then the stated order
C33_ValueThenPrecedence ==
    view.rendered =>
        /\ NoErrorsBound => view.text = ""
        /\ Len(view.parts) = Len(view.errors.entries)
        /\ \A i \in 1..Len(view.parts) :
              view.parts[i] = ShownFor(view.variant, view.custom, view.errors.entries[i])
        /\ Len(view.parts) = 2 => view.text = view.parts[1] \o ". " \o view.parts[2]
        /\ Len(view.parts) = 1 => view.text = view.parts[1]

\* the directive shows the message of the server for duplicate_name though
\* the field configures a message for that code, next to the custom
\* message for required
C33_Witness ==
    /\ view.rendered /\ view.variant = 2
    /\ DOMAIN view.custom = {"required", "duplicate_name"}
    /\ view.errors.entries = <<[code |-> "duplicate_name", value |-> StringValue(ErrDupName.message)],
                                [code |-> "required", value |-> TrueValue]>>
    /\ view.text = "There is already a user with this name.. Please fill in the name"

(***************************************************************************)
(* C34.  From the call of saveUserData, which sets the flag before the     *)
(* request is subscribed, until the terminal outcome of that save has been *)
(* delivered, isSaveRequestInProgress is true and Save and Reset are       *)
(* disabled, whatever the form holds in between.                           *)
(***************************************************************************)
SaveInFlight(s) == InFlight(s) /\ req[s].kind = "save"

\* the step that issues a save sets the flag in the same step
C34_SetOnCall ==
    \A s \in Slots :
        ~SaveInFlight(s) /\ SaveInFlight(s)' => isSaveRequestInProgress'

\* C34: while a save is in flight the flag is true and both buttons are
\* disabled
C34_DisabledWhileSaving ==
    /\ [](\A s \in Slots :
            SaveInFlight(s) =>
                isSaveRequestInProgress /\ isSaveButtonDisabled /\ isResetButtonDisabled)
    /\ [][C34_SetOnCall]_vars

\* a save is in flight with a progress report delivered, the user has
\* typed a name since, the form is valid and differs from the record, and
\* both buttons are disabled
C34_Witness ==
    \E s \in Slots :
        /\ SaveInFlight(s) /\ req[s].nevents > 0
        /\ FormValid(controlErrors)
        /\ ~isFormPristine(formValue, userData)
        /\ formValue["name"] = "zed" /\ userData.name # "zed"
        /\ uploadProgress > 0
        /\ isSaveButtonDisabled /\ isResetButtonDisabled

(***************************************************************************)
(* C35.  As long as saveUserData is called only while isSaveDisabled is    *)
(* false, at most one save is in flight and isSaveRequestInProgress is     *)
(* true exactly when one is.  Called without that gate, two overlapping    *)
(* saves reach a state where one of them is still in flight while          *)
(* isSaveRequestInProgress is false and uploadProgress is back at 0.       *)
(***************************************************************************)
SavesInFlight == {s \in Slots : SaveInFlight(s)}

\* C35: with every call gated, one save at a time and the flag tells it
C35_GatedSavesSerial ==
    ~calledWhileDisabled =>
        /\ Cardinality(SavesInFlight) <= 1
        /\ isSaveRequestInProgress <=> SavesInFlight # {}

\* of two overlapping saves one has resolved and the other, whose progress
\* was reported, is still in flight: the flag is false and the progress 0
C35_Witness ==
    /\ calledWhileDisabled
    /\ \E s, t \in Slots :
          /\ SaveInFlight(s) /\ req[s].nevents > 0
          /\ Done(t) /\ req[t].kind = "save"
    /\ ~isSaveRequestInProgress
    /\ uploadProgress = 0

\* a gated save is in flight, alone
C35_GatedWitness ==
    /\ ~calledWhileDisabled
    /\ Cardinality(SavesInFlight) = 1
    /\ isSaveRequestInProgress

(***************************************************************************)
(* C36.  With saves issued through the Save button, no save is in flight   *)
(* while isLoadRequestInProgress is true; so a load never resolves with a  *)
(* record after a save issued later than it has stored its own.            *)
(***************************************************************************)
LoadInFlight(s) == InFlight(s) /\ req[s].kind = "load"

SucceededSave(s) ==
    /\ Done(s) /\ req[s].kind = "save"
    /\ \E i \in Positions(req[s].log, {"Success"}) : ~req[s].log[i].data.isNull

\* a load does not store its record over the one of a save that was
\* issued while the load was in flight and has resolved before it
C36_LoadNotAfterSave ==
    \A s, t \in Slots :
        (~calledWhileDisabled /\ LoadInFlight(s) /\ SucceededSave(t) /\ Done(s)')
            => userData' = userData

\* C36: no save in flight during a load, no load overwriting a later save
C36_AsStated ==
    /\ [](~calledWhileDisabled /\ isLoadRequestInProgress => SavesInFlight = {})
    /\ [][C36_LoadNotAfterSave]_vars

\* the second half alone
C36_LoadAfterSave == [][C36_LoadNotAfterSave]_vars

(***************************************************************************)
(* C37.  As stated: right after a save or a load resolves with Success(D)  *)
(* the values of the form are the projection of D onto the keys of the     *)
(* form, the avatar among them, so the form is pristine and Save and Reset *)
(* are disabled until the next edit.                                       *)
(***************************************************************************)
PristineNext == isFormPristine(formValue', userData')
SaveDisabledNext ==
    isSaveDisabled(formValue', controlErrors', userData', isSaveRequestInProgress')
ResetDisabledNext == isResetDisabled(formValue', userData', isSaveRequestInProgress')

\* a step that is no edit and brings no record leaves a pristine form
\* pristine and the buttons disabled
C37_StaysStep ==
    (/\ isFormPristine(formValue, userData)
     /\ formValue' = formValue
     /\ \A s \in Slots : SuccessData(s) = {})
        => PristineNext /\ SaveDisabledNext /\ ResetDisabledNext

C37_AsStatedStep ==
    \A s \in Slots : \A d \in SuccessData(s) :
        Resolves(s) =>
            /\ formValue' = [f \in Fields |-> PickField(d, f)]
            /\ PristineNext /\ SaveDisabledNext /\ ResetDisabledNext

C37_SuccessStep ==
    \A s \in Slots : \A d \in SuccessData(s) :
        Resolves(s) =>
            IF d.isNull
               THEN userData'.isNull /\ ~PristineNext /\ ~ResetDisabledNext
               ELSE /\ formValue' = [f \in Fields |-> PickField(d, f)]
                    /\ formValue'["avatar"] = d.avatar
                    /\ PristineNext /\ SaveDisabledNext /\ ResetDisabledNext

PutSucceeded == server.method = "PUT" /\ server.reply.status = StatusOk

\* the fields of the reply are those of the written record, with the same
\* values, the avatar apart
RepliesWrittenRecord ==
    LET written == server.users[server.id]
        data == server.reply.data
    IN /\ "id" \in DOMAIN data
       /\ DOMAIN written \subseteq DOMAIN data
       /\ \A k \in DOMAIN written \ {"avatar"} : data[k] = written[k]
       /\ data = getUser(server.variant, server.users, server.id).data

\* C38: a successful PUT answers with the written record, as a GET would
C38_AsStated == PutSucceeded => RepliesWrittenRecord

\* the server without uploads does answer with the written record
C38_OlderServer == PutSucceeded /\ server.variant = 1 => RepliesWrittenRecord

SourceFailed == stream.sent # <<>> /\ stream.sent[Len(stream.sent)].kind = "error"

ThrownError == stream.sent[Len(stream.sent)].error

\* the flag an error carries, false for an error that carries none
CarriedFlag(e) == IF "wasCaught" \in DOMAIN e THEN e.wasCaught ELSE FALSE

\* what was received is what was sent, the error replaced by a completion:
\* nothing follows the completion and no error arrives
CompletedInstead ==
    /\ Len(stream.out) = Len(stream.sent)
    /\ \A i \in 1..Len(stream.sent) :
          stream.out[i] = IF stream.sent[i].kind = "error"
                             THEN CompleteNotification ELSE stream.sent[i]
    /\ \A i \in 1..Len(stream.out) :
          /\ stream.out[i].kind # "error"
          /\ stream.out[i].kind = "complete" => i = Len(stream.out)

\* C39 as stated: on an error the callback runs once, with the error and
\* its wasCaught flag, and the stream completes; without an error the
\* callback never runs
C39_AsStated ==
    /\ SourceFailed =>
          /\ stream.calls = << <<ThrownError, CarriedFlag(ThrownError)>> >>
          /\ CompletedInstead
    /\ ~SourceFailed => stream.calls = <<>>

\* C39: on an error the callback runs once, with the error and, in the
\* variant whose callback takes the flag, with the error's wasCaught flag
\* (false when the error carries none), in the other variant with the error
\* alone; the stream then completes, no value follows and no error reaches
\* the subscriber; without an error the callback never runs
C39_CalledOnceThenCompletes ==
    /\ SourceFailed =>
          /\ stream.calls =
                IF stream.variant = 1
                   THEN << <<ThrownError, CarriedFlag(ThrownError)>> >>
                   ELSE << <<ThrownError>> >>
          /\ CompletedInstead
    /\ ~SourceFailed =>
          /\ stream.calls = <<>>
          /\ stream.out = stream.sent

C39_Witness ==
    /\ SourceFailed
    /\ stream.variant = 1
    /\ Len(stream.sent) > 1
    /\ "wasCaught" \notin DOMAIN ThrownError
    /\ stream.calls = << <<ThrownError, FALSE>> >>
    /\ stream.out[Len(stream.out)] = CompleteNotification

\* the same case in the variant whose callback takes the error alone
C39_ErrorAloneWitness ==
    /\ SourceFailed
    /\ stream.variant = 2
    /\ CarriedFlag(ThrownError)
    /\ stream.calls = << <<ThrownError>> >>

====
